---------------------------- MODULE Spec2Model ----------------------------
(***************************************************************************)
(* Verification model of two subsystems of ESP32-IoT-Projects:             *)
(*                                                                         *)
(*  - the custom eFuse provisioning routine of                             *)
(*    ESP32S3_Custom_Efuse_Gen_Demo/main/main.c (crc16_ccitt_false,        *)
(*    efuse_is_provisioned, efuse_program_custom_fields);                  *)
(*  - the gated OTA polling loop of                                        *)
(*    ESP32C6_Secure_Boot_Https_Ota_Ref/main/ota_manager.c                 *)
(*    (ota_decision_task and the gate functions it calls).                 *)
(*                                                                         *)
(* The ESP-IDF calls (eFuse field read/write, batch begin/cancel/commit,   *)
(* GPIO, HTTP client, sockets, esp_https_ota) are the environment: each    *)
(* call's outcome is chosen nondeterministically among the outcomes the    *)
(* caller's code distinguishes.                                            *)
(***************************************************************************)
EXTENDS Integers, Sequences, FiniteSets, TLC

VARIABLES
    \* ---- eFuse provisioning store and the last program() call ----
    efuse,      \* the USER_DATA custom fields, each a blob of bytes
    args,       \* arguments of the last efuse_program_custom_fields call
    ret,        \* its return value
    log,        \* the ESP-IDF eFuse calls it made, in order
    prov,       \* what efuse_is_provisioned returned inside it
    crc_ok,     \* the out flag *out_is_ok_crc it left
    last_ok,    \* arguments of the previous call if it returned ESP_OK
    \* ---- OTA decision task ----
    ota_pc,     \* position of ota_decision_task in its loop
    cycle,      \* what the task did in the current poll cycle, in order
    cfg,        \* the build-time configuration of app_cfg.h
    ota_logged, \* the log lines written during the current poll cycle
    prev_blocked, \* the cycle before saw a request and was stopped by a later gate
    \* ---- a call of crc16_ccitt_false on its own ----
    crc_data,   \* the bytes passed to crc16_ccitt_false
    crc_out,    \* the value it returned, as <<value>>; <<>> before it returns
    \* ---- Wi-Fi station start-up (wifi_station.c) ----
    wifi_pc,    \* position of wifi_station_start
    wifi_ssid,  \* whether APP_WIFI_SSID is non-empty
    s_retry_count, \* the handler's retry counter
    wifi_bits,  \* the bits set in the event group s_wifi_evt
    wifi_link,  \* what the driver is doing: the events it can still post
    wifi_last,  \* the last event handled, whether esp_wifi_connect was called for
                \* it, and the retry counter it found
    wifi_ret,   \* <<bits>> once xEventGroupWaitBits returned them, <<bits, return
                \* value>> once wifi_station_start returned
    \* ---- power gating demo (ESP32C6_Power_Gating_Demo) ----
    pg_cfg,     \* active_high of the build, and whether xEventGroupCreate succeeded
    pg_level,   \* <<level>> driven on the enable GPIO, <<>> before pg_init
    pg_main,    \* position of app_main
    pg_meas,    \* position of task_measurement
    pg_comm,    \* position of task_comm
    pg_mgr,     \* position of task_power_manager
    pg_bits,    \* the bits set in the event group s_evt
    pg_trace,   \* what the firmware did since boot, in order
    \* ---- counting-semaphore pool (Semaphore_Mutex_Demo) ----
    pool_main,  \* position of app_main
    g_pool_sem, \* the count of the counting semaphore
    worker,     \* position of each worker_task, by its id
    \* ---- queue demo (ESP32_FreeRTOS_SMP_IPC_Demo) ----
    q_tasks,    \* which of the producer and consumer tasks were created
    s_data_q,   \* the items in the queue, oldest first
    q_value,    \* the producer's variable `value`
    q_prod,     \* position of producer_queue_task
    q_got,      \* the values xQueueReceive gave the consumer, in order
    \* ---- notification demo (ESP32_FreeRTOS_SMP_IPC_Demo) ----
    n_main,     \* position of run_notify_demo
    s_consumer_notify_handle, \* <<>> for NULL, or <<the consumer task>>
    n_value,    \* the notification value of the consumer task
    n_seq,      \* the producer's variable `seq`
    n_prod,     \* position of producer_notify_task
    n_cons,     \* position of consumer_notify_task
    n_counts,   \* the counts ulTaskNotifyTake returned, in order
    \* ---- event group demo (Task_Synchronization_Using_Event_Groups_Demo) ----
    g_evt,      \* the bits set in the event group
    ev_main,    \* position of app_main
    ev_init,    \* position of init_task
    ev_task,    \* position of adc_task, temp_task, gpio_task, diagnostics_task
    gpio_last,  \* gpio_task: the level `last`
    stable_count, \* gpio_task: consecutive identical reads
    ev_agg,     \* position of aggregator_task
    ev_bits,    \* aggregator_task: `bits` of the last wait, <<>> before it
    ev_out      \* what aggregator_task logged last

efuseVars == <<efuse, args, ret, log, prov, crc_ok, last_ok>>
otaVars   == <<ota_pc, cycle, cfg, ota_logged, prev_blocked>>
crcVars   == <<crc_data, crc_out>>
wifiVars  == <<wifi_pc, wifi_ssid, s_retry_count, wifi_bits, wifi_link, wifi_last, wifi_ret>>
pgVars    == <<pg_cfg, pg_level, pg_main, pg_meas, pg_comm, pg_mgr, pg_bits, pg_trace>>
poolVars  == <<pool_main, g_pool_sem, worker>>
queueVars == <<q_tasks, s_data_q, q_value, q_prod, q_got>>
notifyVars == <<n_main, s_consumer_notify_handle, n_value, n_seq, n_prod, n_cons, n_counts>>
evtVars   == <<g_evt, ev_main, ev_init, ev_task, gpio_last, stable_count, ev_agg, ev_bits, ev_out>>
demoVars  == <<wifiVars, pgVars, poolVars, queueVars, notifyVars, evtVars>>
vars      == <<efuse, args, ret, log, prov, crc_ok, last_ok,
               ota_pc, cycle, cfg, ota_logged, prev_blocked,
               crc_data, crc_out, demoVars>>

\* no separate call of crc16_ccitt_false is being looked at
CrcIdle == crc_data = <<>> /\ crc_out = <<>>

\* the Wi-Fi station code is not running
WifiIdle ==
    /\ wifi_pc = "off"
    /\ wifi_ssid = FALSE
    /\ s_retry_count = 0
    /\ wifi_bits = {}
    /\ wifi_link = "off"
    /\ wifi_last = <<>>
    /\ wifi_ret = <<>>

\* the power gating demo is not running
PgIdle ==
    /\ pg_cfg = <<>>
    /\ pg_level = <<>>
    /\ pg_main = "off"
    /\ pg_meas = "none"
    /\ pg_comm = "none"
    /\ pg_mgr = "none"
    /\ pg_bits = {}
    /\ pg_trace = <<>>

\* the semaphore demo is not running
PoolIdle ==
    /\ pool_main = "off"
    /\ g_pool_sem = 0
    /\ worker = <<>>

\* the queue demo is not running
QueueIdle ==
    /\ q_tasks = <<>>
    /\ s_data_q = <<>>
    /\ q_value = 0
    /\ q_prod = "off"
    /\ q_got = <<>>

\* the notification demo is not running
NotifyIdle ==
    /\ n_main = "off"
    /\ s_consumer_notify_handle = <<>>
    /\ n_value = 0
    /\ n_seq = 0
    /\ n_prod = "off"
    /\ n_cons = "off"
    /\ n_counts = <<>>

\* the event group demo is not running
EvtIdle ==
    /\ g_evt = {}
    /\ ev_main = "off"
    /\ ev_init = "off"
    /\ ev_task = <<>>
    /\ gpio_last = 0
    /\ stable_count = 0
    /\ ev_agg = "off"
    /\ ev_bits = <<>>
    /\ ev_out = "none"

\* none of the demo programs is running
DemoIdle == WifiIdle /\ PgIdle /\ PoolIdle /\ QueueIdle /\ NotifyIdle /\ EvtIdle

-----------------------------------------------------------------------------
(* Bit operations on C unsigned integers, nibble by nibble.                *)

RECURSIVE BitsAnd(_, _, _)
BitsAnd(a, b, n) ==
    IF n = 0 THEN 0
    ELSE (IF a % 2 = 1 /\ b % 2 = 1 THEN 1 ELSE 0)
         + 2 * BitsAnd(a \div 2, b \div 2, n - 1)

RECURSIVE BitsXor(_, _, _)
BitsXor(a, b, n) ==
    IF n = 0 THEN 0
    ELSE (IF a % 2 # b % 2 THEN 1 ELSE 0)
         + 2 * BitsXor(a \div 2, b \div 2, n - 1)

NibAnd == [a \in 0..15 |-> [b \in 0..15 |-> BitsAnd(a, b, 4)]]
NibXor == [a \in 0..15 |-> [b \in 0..15 |-> BitsXor(a, b, 4)]]

\* (uint8_t)(a & b)
And8(a, b) == 16 * NibAnd[a \div 16][b \div 16] + NibAnd[a % 16][b % 16]
\* (uint8_t)(~b)
Not8(b) == 255 - b
\* a | b on bytes
Or8(a, b) == a + b - And8(a, b)
\* a ^ b on bytes
Xor8(a, b) == 16 * NibXor[a \div 16][b \div 16] + NibXor[a % 16][b % 16]
\* a ^ b on uint16_t
Xor16(a, b) == 256 * Xor8(a \div 256, b \div 256) + Xor8(a % 256, b % 256)

-----------------------------------------------------------------------------
(* crc16_ccitt_false: bit-serial, every intermediate cast to uint16_t.     *)

\* the inner loop "for (b = 0; b < 8; b++)" from round b on
RECURSIVE crc16_bits(_, _)
crc16_bits(crc, b) ==
    IF b = 8 THEN crc
    ELSE IF crc \div 32768 = 1                                 \* crc & 0x8000
         THEN crc16_bits(Xor16((crc * 2) % 65536, 4129), b + 1) \* (uint16_t)((crc << 1) ^ 0x1021)
         ELSE crc16_bits((crc * 2) % 65536, b + 1)              \* (uint16_t)(crc << 1)

\* one round of the outer loop on data byte d, as a map on uint16_t crc
crc16_byte(d) == [crc \in 0..65535 |-> crc16_bits(Xor16(crc, d * 256), 0)]

\* crc after the first len bytes of data
\* the register started at 0 instead of 0xFFFF
RECURSIVE crc16_prefix_zero_init(_, _)
crc16_prefix_zero_init(data, len) ==
    IF len = 0 THEN 0
    ELSE crc16_byte(data[len])[crc16_prefix_zero_init(data, len - 1)]

RECURSIVE crc16_prefix(_, _)
crc16_prefix(data, len) ==
    IF len = 0 THEN 65535
    ELSE crc16_byte(data[len])[crc16_prefix(data, len - 1)]

crc16_ccitt_false(data) == crc16_prefix(data, Len(data))


-----------------------------------------------------------------------------
(* The custom fields of esp_efuse_custom_table.csv and their blobs.        *)

FieldOrder == <<"SERIAL_NUMBER", "HW_REV", "FEATURE_FLAGS", "PROVISIONING_CRC16">>
FieldNames == {FieldOrder[i] : i \in 1..4}
FieldSize  == [f \in FieldNames |->
                 CASE f = "SERIAL_NUMBER"      -> 16
                   [] f = "HW_REV"             -> 2
                   [] f = "FEATURE_FLAGS"      -> 4
                   [] f = "PROVISIONING_CRC16" -> 2]

Zeros(n) == [i \in 1..n |-> 0]
Blank    == [f \in FieldNames |-> Zeros(FieldSize[f])]

\* esp_err_t values the routine returns or receives
ESP_OK                == "ESP_OK"
ESP_ERR_INVALID_ARG   == "ESP_ERR_INVALID_ARG"
ESP_ERR_INVALID_STATE == "ESP_ERR_INVALID_STATE"
ESP_ERR_EFUSE_REPEATED_PROG == "ESP_ERR_EFUSE_REPEATED_PROG"
\* error codes a failing field read may return
ReadErrs == {"ESP_ERR_INVALID_ARG", "ESP_ERR_CODING"}
\* error codes a failing batch begin, field write or commit may return
WriteErrs == {"ESP_FAIL"}

\* mutant: the most significant byte comes first
le_bytes_be(v, n) == [i \in 1..n |-> (v \div (256 ^ (n - i))) % 256]

\* a value of a multi-byte C variable as its little-endian bytes:
\* (uint8_t)(v & 0xFF), (uint8_t)((v >> 8) & 0xFF), ...
le_bytes(v, n) == [i \in 1..n |-> (v \div (256 ^ (i - 1))) % 256]
\* reading a field blob into a uint16_t / uint32_t variable (little-endian CPU)
RECURSIVE load_le(_, _)
load_le(bytes, i) ==
    IF i > Len(bytes) THEN 0 ELSE bytes[i] + 256 * load_le(bytes, i + 1)

\* one entry of the call log
Call(op, f, data, err) == [op |-> op, field |-> f, data |-> data, err |-> err]

\* The reads of the four fields in order: either all succeed (fail = 0) or the
\* fail-th read returns err and the function returns before the later ones.
ReadRuns == {[fail |-> 0, err |-> ESP_OK]}
            \cup {[fail |-> k, err |-> e] : k \in 1..4, e \in ReadErrs}
ReadLog(run) ==
    [i \in 1..(IF run.fail = 0 THEN 4 ELSE run.fail) |->
        Call("read", FieldOrder[i], <<>>, IF i = run.fail THEN run.err ELSE ESP_OK)]

\* payload[0..21] built from the values read: serial, hw_rev LE, flags LE
stored_payload(serial_raw, hw_rev, flags) ==
    serial_raw \o le_bytes(hw_rev, 2) \o le_bytes(flags, 4)

\* mutant: the stored CRC is compared the wrong way round
efuse_is_provisioned_mismatch(st, run) ==
    LET crc16_stored == load_le(st["PROVISIONING_CRC16"], 1)
        crc16_calc   == crc16_ccitt_false(stored_payload(st["SERIAL_NUMBER"],
                            load_le(st["HW_REV"], 1), load_le(st["FEATURE_FLAGS"], 1)))
        ok           == (crc16_stored # 0) /\ (crc16_stored # crc16_calc)
    IN  IF run.fail # 0
        THEN [ret |-> FALSE, out |-> FALSE, log |-> ReadLog(run)]
        ELSE [ret |-> ok, out |-> ok, log |-> ReadLog(run)]

\* mutant: a failing read does not make the check return false
efuse_is_provisioned_keepgoing(st, run) ==
    LET crc16_stored == load_le(st["PROVISIONING_CRC16"], 1)
        crc16_calc   == crc16_ccitt_false(stored_payload(st["SERIAL_NUMBER"],
                            load_le(st["HW_REV"], 1), load_le(st["FEATURE_FLAGS"], 1)))
        ok           == (crc16_stored # 0) /\ (crc16_stored = crc16_calc)
    IN  [ret |-> ok, out |-> ok, log |-> ReadLog(run)]

\* efuse_is_provisioned(&crc_ok) on store st, with the reads going as `run`
efuse_is_provisioned(st, run) ==
    LET serial_raw   == st["SERIAL_NUMBER"]
        hw_rev       == load_le(st["HW_REV"], 1)
        flags        == load_le(st["FEATURE_FLAGS"], 1)
        crc16_stored == load_le(st["PROVISIONING_CRC16"], 1)
        crc16_calc   == crc16_ccitt_false(stored_payload(serial_raw, hw_rev, flags))
        ok           == (crc16_stored # 0) /\ (crc16_stored = crc16_calc)
    IN  IF run.fail # 0
        THEN [ret |-> FALSE, out |-> FALSE, log |-> ReadLog(run)]
        ELSE [ret |-> ok, out |-> ok, log |-> ReadLog(run)]

-----------------------------------------------------------------------------
(* efuse_program_custom_fields                                             *)

\* a C string argument: NULL, or its characters up to the terminating NUL
NullStr   == [null |-> TRUE,  chars |-> <<>>]
CStr(s)   == [null |-> FALSE, chars |-> s]

\* desired_payload[0..15]: memcpy of min(strlen, 16) bytes over zero init
serial_copy(chars) ==
    LET n == IF Len(chars) > 16 THEN 16 ELSE Len(chars)
    IN  [i \in 1..16 |-> IF i <= n THEN chars[i] ELSE 0]

desired_payload(chars, hw_rev, flags) ==
    serial_copy(chars) \o le_bytes(hw_rev, 2) \o le_bytes(flags, 4)

\* mutant: the complement of the desired byte is forgotten
EFUSE_CONFLICT_noinvert(cur_b, desired_b) == And8(cur_b, desired_b) # 0

\* #define EFUSE_CONFLICT_EXISTS(cur_b, desired_b)
EFUSE_CONFLICT_EXISTS(cur_b, desired_b) == And8(cur_b, Not8(desired_b)) # 0

\* mutant: the delta is the desired byte itself, stored bits not masked out
delta_byte_plain(desired_b, cur_b) == desired_b

\* one byte of a delta buffer: desired & ~cur
delta_byte(desired_b, cur_b) == And8(desired_b, Not8(cur_b))

\* the desired bytes of each field: payload slices and desired_crc_le
desired_fields(payload, desired_crc16) ==
    [f \in FieldNames |->
        CASE f = "SERIAL_NUMBER"      -> SubSeq(payload, 1, 16)
          [] f = "HW_REV"             -> SubSeq(payload, 17, 18)
          [] f = "FEATURE_FLAGS"      -> SubSeq(payload, 19, 22)
          [] f = "PROVISIONING_CRC16" -> le_bytes(desired_crc16, 2)]

\* the current bytes of each field: cur_serial, cur_hw_le, cur_flags_le, cur_crc_le
current_fields(st) ==
    [f \in FieldNames |->
        IF f = "SERIAL_NUMBER" THEN st[f]
        ELSE le_bytes(load_le(st[f], 1), FieldSize[f])]

\* mutant: only serial, hw_rev and flags are checked for a conflict
has_conflict_nocrc(cur, des) ==
    \E f \in FieldNames \ {"PROVISIONING_CRC16"} : \E i \in 1..FieldSize[f] :
        EFUSE_CONFLICT_EXISTS(cur[f][i], des[f][i])

\* the four conflict loops
has_conflict(cur, des) ==
    \E f \in FieldNames : \E i \in 1..FieldSize[f] :
        EFUSE_CONFLICT_EXISTS(cur[f][i], des[f][i])

\* serial_delta, hw_delta, flags_delta, crc_delta
delta_fields(cur, des) ==
    [f \in FieldNames |-> [i \in 1..FieldSize[f] |-> delta_byte(des[f][i], cur[f][i])]]

\* mutant: every field counts as having new bits to burn
need_field_always(delta, f) == TRUE

\* need_serial, need_hw, need_flags, need_crc
need_field(delta, f) == \E i \in 1..FieldSize[f] : delta[f][i] # 0

\* mutant: a burn replaces the stored bytes by the written ones
burn_bytes_overwrite(old, data) == data

\* burning bits: an eFuse bit that is 1 stays 1, a written 1 sets it
burn_bytes(old, data) == [i \in 1..Len(old) |-> Or8(old[i], data[i])]

\* esp_efuse_batch_write_commit returning ESP_OK: every staged field is burned
burn(st, staged) == [f \in FieldNames |-> burn_bytes(st[f], staged[f])]

\* what the function leaves behind: return value, store, calls, check result
Outcome(r, st, lg, chk) ==
    [ret |-> r, efuse |-> st, log |-> lg, prov |-> chk.ret, crc_ok |-> chk.out]

\* the staged data of the first k fields only
first_fields(staged, k) ==
    [f \in FieldNames |->
        IF \E i \in 1..k : FieldOrder[i] = f THEN staged[f] ELSE Zeros(FieldSize[f])]

\* esp_efuse_batch_write_commit: on ESP_OK all staged bits are burned; on an
\* error the burn may have stopped after any number k of the fields
commit_batch(st, staged, lg, chk) ==
    {Outcome(ESP_OK, burn(st, staged), Append(lg, Call("commit", "", <<>>, ESP_OK)), chk)}
    \cup
    {Outcome(e, burn(st, first_fields(staged, k)),
             Append(lg, Call("commit", "", <<>>, e)), chk)
        : e \in WriteErrs, k \in 0..4}

\* mutant: the error is returned without cancelling the batch
staging_error_nocancel(st, lg, err, chk) == {Outcome(err, st, lg, chk)}

\* a field write returned err: esp_efuse_batch_write_cancel(); return err;
staging_error(st, lg, err, chk) ==
    {Outcome(err, st, Append(lg, Call("cancel", "", <<>>, ESP_OK)), chk)}

\* what esp_efuse_write_field_blob may return for `data` in batch mode:
\* ESP_ERR_EFUSE_REPEATED_PROG if a bit of data is already set, else ESP_OK
\* or another error
write_results(st, f, data) ==
    IF \E i \in 1..FieldSize[f] : And8(st[f][i], data[i]) # 0
    THEN {ESP_ERR_EFUSE_REPEATED_PROG}
    ELSE {ESP_OK} \cup WriteErrs

\* mutant: the block that stages the CRC delta is missing
RECURSIVE stage_fields_skipcrc(_, _, _, _, _, _, _)
stage_fields_skipcrc(st, delta, need, i, staged, lg, chk) ==
    IF i > 3 THEN commit_batch(st, staged, lg, chk)
    ELSE LET f == FieldOrder[i] IN
         IF ~need[f] THEN stage_fields_skipcrc(st, delta, need, i + 1, staged, lg, chk)
         ELSE UNION {
                LET lg2 == Append(lg, Call("write", f, delta[f], e)) IN
                IF e = ESP_OK
                THEN stage_fields_skipcrc(st, delta, need, i + 1,
                                          [staged EXCEPT ![f] = delta[f]], lg2, chk)
                ELSE staging_error(st, lg2, e, chk)
                : e \in write_results(st, f, delta[f]) }

\* the four "if (need_x) { err = write(x_delta) ... }" blocks, from the i-th on
RECURSIVE stage_fields(_, _, _, _, _, _, _)
stage_fields(st, delta, need, i, staged, lg, chk) ==
    IF i > 4 THEN commit_batch(st, staged, lg, chk)
    ELSE LET f == FieldOrder[i] IN
         IF ~need[f] THEN stage_fields(st, delta, need, i + 1, staged, lg, chk)
         ELSE UNION {
                LET lg2 == Append(lg, Call("write", f, delta[f], e)) IN
                IF e = ESP_OK
                THEN stage_fields(st, delta, need, i + 1,
                                  [staged EXCEPT ![f] = delta[f]], lg2, chk)
                ELSE staging_error(st, lg2, e, chk)
                : e \in write_results(st, f, delta[f]) }

\* mutant: the fields are staged without opening a batch first
batch_write_nobegin(st, delta, need, lg, chk) ==
    stage_fields(st, delta, need, 1, Blank, lg, chk)

\* esp_efuse_batch_write_begin and what follows it
batch_write(st, delta, need, lg, chk) ==
    {Outcome(e, st, Append(lg, Call("begin", "", <<>>, e)), chk) : e \in WriteErrs}
    \cup stage_fields(st, delta, need, 1, Blank,
                      Append(lg, Call("begin", "", <<>>, ESP_OK)), chk)

\* after the four reads of the current values succeeded
program_checked(st, chars, hw_rev, flags, lg, chk) ==
    LET payload == desired_payload(chars, hw_rev, flags)
        desired_crc16 == crc16_ccitt_false(payload)
        des   == desired_fields(payload, desired_crc16)
        cur   == current_fields(st)
        delta == delta_fields(cur, des)
        need  == [f \in FieldNames |-> need_field(delta, f)]
    IN  IF has_conflict(cur, des)
        THEN {Outcome(ESP_ERR_INVALID_STATE, st, lg, chk)}
        ELSE IF \A f \in FieldNames : ~need[f]
        THEN {Outcome(ESP_OK, st, lg, chk)}
        ELSE batch_write(st, delta, need, lg, chk)

\* "if (efuse_is_provisioned(&crc_ok) && crc_ok)"
already_provisioned(chk) == chk.ret /\ chk.out

\* mutant: the results of the function's own reads are not checked
program_reads_ignore(st, chars, hw_rev, flags, chk) ==
    UNION { program_checked(st, chars, hw_rev, flags, chk.log \o ReadLog(run), chk)
            : run \in ReadRuns }

\* the function's own four reads: a failing one returns its error
program_reads(st, chars, hw_rev, flags, chk) ==
    UNION { LET lg == chk.log \o ReadLog(run) IN
            IF run.fail # 0
            THEN {Outcome(run.err, st, lg, chk)}
            ELSE program_checked(st, chars, hw_rev, flags, lg, chk)
            : run \in ReadRuns }

\* every outcome of efuse_program_custom_fields(serial_ascii, hw_rev, flags)
efuse_program_custom_fields(st, serial_ascii, hw_rev, flags) ==
    IF serial_ascii.null
    THEN {Outcome(ESP_ERR_INVALID_ARG, st, <<>>,
                  [ret |-> FALSE, out |-> FALSE, log |-> <<>>])}
    ELSE UNION { LET chk == efuse_is_provisioned(st, run) IN
                 IF already_provisioned(chk)
                 THEN {Outcome(ESP_OK, st, chk.log, chk)}
                 ELSE program_reads(st, serial_ascii.chars, hw_rev, flags, chk)
                 : run \in ReadRuns }

-----------------------------------------------------------------------------
(* Inputs and initial stores of the provisioning model.                    *)

\* "SN-ESP32S3-0001", the demo serial of app_main
SerialDemo == <<83, 78, 45, 69, 83, 80, 51, 50, 83, 51, 45, 48, 48, 48, 49>>
\* "SN-ESP32S3-0003XYZ": 18 characters, its first 16 a bitwise superset of the
\* padded demo serial
SerialLong == <<83, 78, 45, 69, 83, 80, 51, 50, 83, 51, 45, 48, 48, 48, 51, 88, 89, 90>>
Serials == {NullStr, CStr(<<>>), CStr(SerialDemo), CStr(SerialLong)}
HwRevs  == {1, 513}                 \* 0x0001 (app_main), 0x0201
\* 0x0000000F (app_main), 0x0100000F, and 0x00005F2E, with which the payload
\* of the demo serial and hw_rev 1 has the CRC 0x0000
Flags   == {15, 16777231, 24366}

\* a store the demo values were provisioned into
Provisioned(chars, hw_rev, flags) ==
    LET p == desired_payload(chars, hw_rev, flags)
    IN  desired_fields(p, crc16_ccitt_false(p))

\* stores a device may hold when the routine first runs: blank, a stray
\* pattern 0b1010_0000 in the first serial byte, a stray CRC bit, the demo
\* values with one more bit burned in the last serial byte, or the demo
\* values fully provisioned
InitStores ==
    { Blank,
      [Blank EXCEPT !["SERIAL_NUMBER"][1] = 160],
      [Blank EXCEPT !["PROVISIONING_CRC16"][2] = 128],
      [Provisioned(SerialDemo, 1, 15) EXCEPT !["SERIAL_NUMBER"][16] = 1],
      Provisioned(SerialDemo, 1, 15) }

NoArgs == [serial_ascii |-> NullStr, hw_rev |-> 0, flags |-> 0]

EfuseInit ==
    /\ efuse \in InitStores
    /\ args = NoArgs
    /\ ret = "none"
    /\ log = <<>>
    /\ prov = FALSE
    /\ crc_ok = FALSE
    /\ last_ok = NoArgs

\* app_main after a boot: one call of efuse_program_custom_fields. The demo
\* passes constants; here the arguments are any of the bounded sets.
Program ==
    /\ ret = "none"
    /\ \E s \in Serials, h \in HwRevs, fl \in Flags :
        \E o \in efuse_program_custom_fields(efuse, s, h, fl) :
            /\ args' = [serial_ascii |-> s, hw_rev |-> h, flags |-> fl]
            /\ efuse' = o.efuse
            /\ ret' = o.ret
            /\ log' = o.log
            /\ prov' = o.prov
            /\ crc_ok' = o.crc_ok
            /\ UNCHANGED last_ok
    /\ UNCHANGED otaVars
    /\ UNCHANGED crcVars
    /\ UNCHANGED demoVars

\* The device restarts: the eFuses keep their bits, the call's variables are
\* gone. last_ok remembers the arguments of a call that returned ESP_OK.
Reboot ==
    /\ ret # "none"
    /\ last_ok' = IF ret = ESP_OK THEN args ELSE NoArgs
    /\ args' = NoArgs
    /\ ret' = "none"
    /\ log' = <<>>
    /\ prov' = FALSE
    /\ crc_ok' = FALSE
    /\ UNCHANGED efuse
    /\ UNCHANGED otaVars
    /\ UNCHANGED crcVars
    /\ UNCHANGED demoVars

\* the OTA task does not exist in the eFuse demo
OtaIdle ==
    /\ ota_pc = "off"
    /\ cycle = <<>>
    /\ cfg = <<>>
    /\ ota_logged = <<>>
    /\ prev_blocked = FALSE

EfuseNext == Program \/ Reboot

\* the provisioning firmware at power-up
InitEfuse == EfuseInit /\ OtaIdle /\ CrcIdle /\ DemoIdle

SpecEfuse == InitEfuse /\ [][EfuseNext]_vars

-----------------------------------------------------------------------------
(* Properties of the provisioning store.                                   *)

\* a step that is one call of efuse_program_custom_fields
ProgramStep == ret = "none" /\ ret' # "none"

\* every bit set in a is set in b, for two stores
BitsKept(a, b) ==
    \A f \in FieldNames : \A i \in 1..FieldSize[f] : And8(a[f][i], Not8(b[f][i])) = 0

\* the calls of a log that begin a batch, stage a field or commit
WriteCalls(lg) == {i \in 1..Len(lg) : lg[i].op \in {"begin", "write", "cancel", "commit"}}
FailedReads(lg) == {i \in 1..Len(lg) : lg[i].op = "read" /\ lg[i].err # ESP_OK}

\* how many entries of a call's log are the reads of efuse_is_provisioned:
\* up to and including its first failing read, four if none fails
CheckLen(lg) ==
    IF \E i \in 1..4 : i <= Len(lg) /\ lg[i].err # ESP_OK
    THEN CHOOSE i \in 1..4 : /\ i <= Len(lg) /\ lg[i].err # ESP_OK
                             /\ \A j \in 1..(i - 1) : lg[j].err = ESP_OK
    ELSE IF Len(lg) < 4 THEN Len(lg) ELSE 4
CheckReadsOk(lg) == Len(lg) >= 4 /\ \A i \in 1..4 : lg[i].op = "read" /\ lg[i].err = ESP_OK
\* the function's own four reads all happened and succeeded
OwnReadsOk(lg) ==
    /\ Len(lg) >= CheckLen(lg) + 4
    /\ \A i \in (CheckLen(lg) + 1)..(CheckLen(lg) + 4) :
          lg[i].op = "read" /\ lg[i].err = ESP_OK

\* the stored CRC is non-zero and matches the CRC over the stored payload bytes
StoreProvisioned(st) ==
    LET stored == st["PROVISIONING_CRC16"][1] + 256 * st["PROVISIONING_CRC16"][2]
    IN  /\ stored # 0
        /\ stored = crc16_ccitt_false(st["SERIAL_NUMBER"] \o st["HW_REV"] \o st["FEATURE_FLAGS"])

PayloadConflict(st, a) ==
    LET p == desired_payload(a.serial_ascii.chars, a.hw_rev, a.flags)
        stored == st["SERIAL_NUMBER"] \o st["HW_REV"] \o st["FEATURE_FLAGS"]
    IN  \E i \in (IF a.serial_ascii.null THEN 17 ELSE 1)..22 :
            And8(stored[i], Not8(p[i])) # 0

\* C3 as stated: whenever a desired byte of serial, hw_rev or flags would
\* clear a stored bit, the call returns ESP_ERR_INVALID_STATE.
C3_Original ==
    [][(ProgramStep /\ PayloadConflict(efuse, args'))
         => ret' = ESP_ERR_INVALID_STATE]_vars

\* C3 amended: with a non-NULL serial, on a device the provisioning check does
\* not report provisioned and with the call's own four reads succeeding, such
\* a conflict makes the call return ESP_ERR_INVALID_STATE without any write call.
C3_ConflictDetected ==
    [][(/\ ProgramStep
        /\ ~args'.serial_ascii.null
        /\ ~prov'
        /\ OwnReadsOk(log')
        /\ PayloadConflict(efuse, args'))
         => (ret' = ESP_ERR_INVALID_STATE /\ WriteCalls(log') = {} /\ efuse' = efuse)]_vars

\* C3 witness: a call was refused for a conflict in serial, hw_rev or flags.
C3_Witness ==
    /\ ret = ESP_ERR_INVALID_STATE
    /\ ~prov
    /\ OwnReadsOk(log)
    /\ PayloadConflict(efuse, args)

\* C4 as stated: on a store whose CRC is non-zero and matches, every call
\* returns ESP_OK, makes no write call and leaves the store unchanged.
C4_Original ==
    [][(ProgramStep /\ StoreProvisioned(efuse))
         => (ret' = ESP_OK /\ WriteCalls(log') = {} /\ efuse' = efuse)]_vars

\* C4 amended: the same for every call with a non-NULL serial in which the
\* four reads of the provisioning check succeed; the call then makes no
\* further read either.
C4_ProvisionedNoOp ==
    [][(/\ ProgramStep
        /\ ~args'.serial_ascii.null
        /\ CheckReadsOk(log')
        /\ StoreProvisioned(efuse))
         => (ret' = ESP_OK /\ Len(log') = 4 /\ efuse' = efuse)]_vars

\* C4 witness: a call on a provisioned store with arguments that differ from
\* the stored values returned ESP_OK after the check.
C4_Witness ==
    /\ ret = ESP_OK
    /\ StoreProvisioned(efuse)
    /\ Len(log) = 4
    /\ efuse["SERIAL_NUMBER"] # serial_copy(args.serial_ascii.chars)

\* C5: efuse_is_provisioned returns true iff all four reads succeed and the
\* stored CRC is non-zero and equals the CRC over the stored payload; the out
\* flag equals the return value, and a failed read gives false for both.
C5_IsProvisioned ==
    [][(ProgramStep /\ ~args'.serial_ascii.null)
         => /\ prov' = (CheckReadsOk(log') /\ StoreProvisioned(efuse))
            /\ crc_ok' = prov']_vars

\* C5 witness: the check returned true on a store with a matching CRC.
C5_Witness == ret # "none" /\ prov /\ crc_ok /\ StoreProvisioned(efuse)

\* C6: a failing field write is followed by the batch cancel and nothing else:
\* no commit in that call, the write's error code is returned, the store is
\* unchanged.
C6_StagingError ==
    [][ProgramStep =>
         \A i \in 1..Len(log') :
            (log'[i].op = "write" /\ log'[i].err # ESP_OK)
              => /\ Len(log') = i + 1
                 /\ log'[i + 1].op = "cancel"
                 /\ \A j \in 1..Len(log') : log'[j].op # "commit"
                 /\ ret' = log'[i].err
                 /\ efuse' = efuse]_vars

\* C6 witness: a call in which the write of a later field failed after an
\* earlier field had been staged.
C6_Witness ==
    \E i \in 2..Len(log) :
        /\ log[i].op = "write" /\ log[i].err # ESP_OK
        /\ log[i - 1].op = "write" /\ log[i - 1].err = ESP_OK

-----------------------------------------------------------------------------
(* The OTA decision engine: ota_manager.c                                   *)

\* APP_BATT_MIN_MV: the battery threshold (a representative value; the task
\* only compares the reading with it)
APP_BATT_MIN_MV == 3500
\* battery readings are taken within BattSpread millivolts of the threshold
BattSpread == 1
\* the shortest embedded root certificate https_ota_run accepts
MinCertLen == 32
\* sizeof(host) in network_ready_check
HostBufLen == 128

\* a firmware URL as parse_https_host sees it: whether "https://" occurs in
\* it, and the number of characters between it and the next '/' or the end
Url(scheme, host_len) == [https |-> scheme, host_len |-> host_len]

\* the configuration the demo is built with
DefaultCfg ==
    [ start         |-> 22,                 \* APP_OTA_MAINT_START_HOUR
      end           |-> 6,                  \* APP_OTA_MAINT_END_HOUR
      allow_no_time |-> FALSE,              \* APP_OTA_ALLOW_NO_TIME
      batt_mv       |-> APP_BATT_MIN_MV,    \* APP_BATT_FAKE_MV
      cert_len      |-> MinCertLen,         \* server_root_cert_pem_end - _start
      trigger_url   |-> TRUE,               \* strlen(APP_OTA_TRIGGER_URL) != 0
      fw_url        |-> Url(TRUE, 11) ]     \* APP_OTA_FIRMWARE_URL

\* the configurations explored: the default, and each setting varied alone
Configs ==
    {DefaultCfg}
    \cup {[DefaultCfg EXCEPT !.start = w[1], !.end = w[2]] : w \in {<<9, 9>>, <<9, 17>>}}
    \cup {[DefaultCfg EXCEPT !.allow_no_time = TRUE]}
    \cup {[DefaultCfg EXCEPT !.batt_mv = mv] :
             mv \in (APP_BATT_MIN_MV - BattSpread)..(APP_BATT_MIN_MV + BattSpread)}
    \cup {[DefaultCfg EXCEPT !.cert_len = MinCertLen - 1]}
    \cup {[DefaultCfg EXCEPT !.trigger_url = FALSE]}
    \cup {[DefaultCfg EXCEPT !.fw_url = u] :
             u \in {Url(FALSE, 11), Url(TRUE, 0), Url(TRUE, HostBufLen)}}

\* parse_https_host: 0 on success, -1 on failure
parse_https_host(url, host_out_len) ==
    IF ~url.https THEN -1
    ELSE IF url.host_len = 0 \/ url.host_len >= host_out_len THEN -1
    ELSE 0

\* is_time_set: the local year is 2024 or later
is_time_set(year) == year >= 2024

\* start == end handled by the start < end branch
in_maintenance_window_le(c, year, hour) ==
    IF ~is_time_set(year) THEN c.allow_no_time
    ELSE IF c.start <= c.end THEN (hour >= c.start) /\ (hour < c.end)
    ELSE (hour >= c.start) \/ (hour < c.end)

\* the end hour counted as inside the window
in_maintenance_window_inclusive(c, year, hour) ==
    IF ~is_time_set(year) THEN c.allow_no_time
    ELSE IF c.start = c.end THEN TRUE
    ELSE IF c.start < c.end THEN (hour >= c.start) /\ (hour <= c.end)
    ELSE (hour >= c.start) \/ (hour <= c.end)

\* the hour compared without asking whether the time is set
in_maintenance_window_anytime(c, year, hour) ==
    IF c.start = c.end THEN TRUE
    ELSE IF c.start < c.end THEN (hour >= c.start) /\ (hour < c.end)
    ELSE (hour >= c.start) \/ (hour < c.end)

\* in_maintenance_window with the clock showing `year` and `hour`
in_maintenance_window(c, year, hour) ==
    IF ~is_time_set(year) THEN c.allow_no_time
    ELSE IF c.start = c.end THEN TRUE
    ELSE IF c.start < c.end THEN (hour >= c.start) /\ (hour < c.end)
    ELSE (hour >= c.start) \/ (hour < c.end)

\* read_battery_mv: the stub returns APP_BATT_FAKE_MV
read_battery_mv(c) == c.batt_mv

\* a reading equal to the threshold counted as low
battery_low_inclusive(batt_mv) == batt_mv <= APP_BATT_MIN_MV

\* the comparison turned round
battery_low_inverted(batt_mv) == batt_mv >= APP_BATT_MIN_MV

\* "if (batt_mv < APP_BATT_MIN_MV)": the battery gate fails
battery_low(batt_mv) == batt_mv < APP_BATT_MIN_MV

\* mutant: no debounce, the first sample alone decides
ota_button_pressed_first(level1, level2) == level1 = 0

\* one low sample taken as a press
ota_button_pressed_any(level1, level2) == (level1 = 0) \/ (level2 = 0)

\* ota_button_pressed: two samples of the GPIO level, 30 ms apart
ota_button_pressed(level1, level2) == (level1 = 0) /\ (level2 = 0)

\* what can happen to the HTTP client of cloud_trigger_requested
CloudOutcomes == {"init_failed", "open_failed", "read_nothing", "read_1", "read_other"}
\* any response byte taken as a request
cloud_trigger_any_byte(c, outcome) ==
    IF ~c.trigger_url THEN FALSE
    ELSE outcome \in {"read_1", "read_other"}

\* cloud_trigger_requested, with the client going as `outcome`
cloud_trigger_requested(c, outcome) ==
    IF ~c.trigger_url THEN FALSE
    ELSE outcome = "read_1"

\* one call on the esp_http_client API and whether it succeeded
Http(op, ok) == [op |-> op, ok |-> ok]

\* a client that is not cleaned up when it cannot be opened
cloud_trigger_calls_leak(c, outcome) ==
    IF ~c.trigger_url THEN <<>>
    ELSE IF outcome = "init_failed" THEN <<Http("init", FALSE)>>
    ELSE IF outcome = "open_failed"
         THEN <<Http("init", TRUE), Http("open", FALSE)>>
    ELSE <<Http("init", TRUE), Http("open", TRUE), Http("read", outcome # "read_nothing"),
           Http("close", TRUE), Http("cleanup", TRUE)>>

\* the esp_http_client calls cloud_trigger_requested makes, in order, with
\* the client going as `outcome`
cloud_trigger_calls(c, outcome) ==
    IF ~c.trigger_url THEN <<>>
    ELSE IF outcome = "init_failed" THEN <<Http("init", FALSE)>>
    ELSE IF outcome = "open_failed"
         THEN <<Http("init", TRUE), Http("open", FALSE), Http("cleanup", TRUE)>>
    ELSE <<Http("init", TRUE), Http("open", TRUE), Http("read", outcome # "read_nothing"),
           Http("close", TRUE), Http("cleanup", TRUE)>>

\* what can happen in network_ready_check after the host was parsed
NetOutcomes == {"dns_failed", "socket_failed", "connect_failed", "connected"}
\* the service getaddrinfo is asked to resolve: "443"
HttpsPort == 443
\* one call on the resolver / socket API, whether it succeeded, and the port
\* of the address it works on
Sock(op, ok) == [op |-> op, ok |-> ok, port |-> HttpsPort]

\* mutant: the address list is not freed when no socket can be created
network_ready_calls_leak(c, outcome) ==
    IF parse_https_host(c.fw_url, HostBufLen) # 0 THEN <<>>
    ELSE IF outcome = "dns_failed" THEN <<Sock("getaddrinfo", FALSE)>>
    ELSE IF outcome = "socket_failed"
         THEN <<Sock("getaddrinfo", TRUE), Sock("socket", FALSE)>>
    ELSE <<Sock("getaddrinfo", TRUE), Sock("socket", TRUE),
           Sock("connect", outcome = "connected"),
           Sock("close", TRUE), Sock("freeaddrinfo", TRUE)>>

\* the resolver and socket calls network_ready_check makes, in order, with
\* the resolver and the socket going as `outcome`
network_ready_calls(c, outcome) ==
    IF parse_https_host(c.fw_url, HostBufLen) # 0 THEN <<>>
    ELSE IF outcome = "dns_failed" THEN <<Sock("getaddrinfo", FALSE)>>
    ELSE IF outcome = "socket_failed"
         THEN <<Sock("getaddrinfo", TRUE), Sock("socket", FALSE),
                Sock("freeaddrinfo", TRUE)>>
    ELSE <<Sock("getaddrinfo", TRUE), Sock("socket", TRUE),
           Sock("connect", outcome = "connected"),
           Sock("close", TRUE), Sock("freeaddrinfo", TRUE)>>

\* network_ready_check, with the resolver and the socket going as `outcome`
network_ready_check(c, outcome) ==
    IF parse_https_host(c.fw_url, HostBufLen) # 0 THEN FALSE
    ELSE outcome = "connected"

\* what esp_https_ota may return
OtaResults == {ESP_OK, "ESP_FAIL", "ESP_ERR_HTTP_CONNECT"}
\* the transfer started without looking at the certificate length
https_ota_run_nocheck(c, result) == [err |-> result, started |-> TRUE]

\* https_ota_run up to its return or restart: the certificate length check,
\* then the transfer; `started` tells whether esp_https_ota was called
https_ota_run(c, result) ==
    IF c.cert_len < MinCertLen
    THEN [err |-> "ESP_ERR_INVALID_SIZE", started |-> FALSE]
    ELSE [err |-> result, started |-> TRUE]

\* one entry of the cycle record
Did(gate, pass, detail) == [gate |-> gate, pass |-> pass, detail |-> detail]

\* a gate whose failure does not end the cycle
after_gate_fallthrough(pass, next) == next

\* mutant: a failed gate starts the next cycle without the poll-period delay
after_gate_nodelay(pass, next) == IF pass THEN next ELSE "request"

\* "if (!gate) { vTaskDelay(poll period); continue; }": where the task goes
\* after a gate
after_gate(pass, next) == IF pass THEN next ELSE "delay"

\* a task that restarts whatever the transfer returned
after_update_restart(err) == "restart_wait"

\* a task that gives up after a failed update
after_update_halt(err) == IF err = ESP_OK THEN "restart_wait" ELSE "failed"

\* mutant: a task that returns to polling whatever the transfer returned
after_update_poll(err) == "delay"

\* where the task goes after https_ota_run's transfer: on ESP_OK to the
\* 500 ms wait before esp_restart, otherwise back to the loop's delay
after_update(err) == IF err = ESP_OK THEN "restart_wait" ELSE "delay"

\* the log lines of one https_ota_run call: ota_manager.c itself writes none
\* (its TAG is unused and the caller discards the result); esp_https_ota may
\* or may not write lines of its own while it runs
update_log(r, lib_logs) ==
    IF r.started /\ lib_logs THEN <<"esp_https_ota">> ELSE <<>>

\* a loop that keeps a request it saw and skips the request gate next time
loop_again_latched(c) ==
    IF c # <<>> /\ c[1].pass
    THEN [pc |-> "window", cycle |-> <<Did("request", TRUE, <<1, 1, "remembered", <<>>>>)>>]
    ELSE [pc |-> "request", cycle |-> <<>>]

\* "while (1) { bool update_req = ...": the loop body starts over and
\* nothing of the cycle before is kept
loop_again(c) == [pc |-> "request", cycle |-> <<>>]

\* the cycle saw an update request and was stopped by the window, battery or
\* network gate
request_blocked(c) ==
    /\ Len(c) \in 2..4
    /\ c[1].pass
    /\ ~c[Len(c)].pass

\* the provisioning demo is not part of the OTA firmware
EfuseIdle ==
    /\ efuse = Blank
    /\ args = NoArgs
    /\ ret = "none"
    /\ log = <<>>
    /\ prov = FALSE
    /\ crc_ok = FALSE
    /\ last_ok = NoArgs

\* ota_manager_start created the task
OtaInit ==
    /\ ota_pc = "setup"
    /\ cycle = <<>>
    /\ cfg \in Configs
    /\ ota_logged = <<>>
    /\ prev_blocked = FALSE

\* sntp_start_once and gpio_config, then the loop is entered
OtaSetup ==
    /\ ota_pc = "setup"
    /\ ota_pc' = "request"
    /\ UNCHANGED <<cycle, cfg, ota_logged, prev_blocked>>
    /\ UNCHANGED efuseVars
    /\ UNCHANGED crcVars
    /\ UNCHANGED demoVars

\* update_req = ota_button_pressed() || cloud_trigger_requested()
CheckRequest ==
    /\ ota_pc = "request"
    /\ \E level1 \in {0, 1}, level2 \in {0, 1}, outcome \in CloudOutcomes :
         LET pressed == ota_button_pressed(level1, level2)
             cloud   == IF pressed THEN "not_called"
                        ELSE IF ~cfg.trigger_url THEN "no_url"
                        ELSE outcome
             calls   == IF pressed THEN <<>> ELSE cloud_trigger_calls(cfg, outcome)
             update_req == pressed \/ cloud_trigger_requested(cfg, outcome)
         IN  /\ cycle' = Append(cycle, Did("request", update_req,
                                           <<level1, level2, cloud, calls>>))
             /\ ota_pc' = after_gate(update_req, "window")
    /\ UNCHANGED <<cfg, ota_logged, prev_blocked>>
    /\ UNCHANGED efuseVars
    /\ UNCHANGED crcVars
    /\ UNCHANGED demoVars

\* if (!in_maintenance_window())
CheckWindow ==
    /\ ota_pc = "window"
    /\ \E year \in {2023, 2024}, hour \in 0..23 :
         LET pass == in_maintenance_window(cfg, year, hour)
         IN  /\ cycle' = Append(cycle, Did("window", pass, <<year, hour>>))
             /\ ota_pc' = after_gate(pass, "battery")
    /\ UNCHANGED <<cfg, ota_logged, prev_blocked>>
    /\ UNCHANGED efuseVars
    /\ UNCHANGED crcVars
    /\ UNCHANGED demoVars

\* batt_mv = read_battery_mv(); if (batt_mv < APP_BATT_MIN_MV)
CheckBattery ==
    /\ ota_pc = "battery"
    /\ LET batt_mv == read_battery_mv(cfg)
           pass    == ~battery_low(batt_mv)
       IN  /\ cycle' = Append(cycle, Did("battery", pass, <<batt_mv>>))
           /\ ota_pc' = after_gate(pass, "network")
    /\ UNCHANGED <<cfg, ota_logged, prev_blocked>>
    /\ UNCHANGED efuseVars
    /\ UNCHANGED crcVars
    /\ UNCHANGED demoVars

\* if (!network_ready_check(APP_OTA_FIRMWARE_URL))
CheckNetwork ==
    /\ ota_pc = "network"
    /\ \E outcome \in NetOutcomes :
         LET parsed == parse_https_host(cfg.fw_url, HostBufLen) = 0
             pass   == network_ready_check(cfg, outcome)
         IN  /\ cycle' = Append(cycle, Did("network", pass,
                                           <<IF parsed THEN outcome ELSE "parse_failed",
                                             network_ready_calls(cfg, outcome)>>))
             /\ ota_pc' = after_gate(pass, "update")
    /\ UNCHANGED <<cfg, ota_logged, prev_blocked>>
    /\ UNCHANGED efuseVars
    /\ UNCHANGED crcVars
    /\ UNCHANGED demoVars

\* (void)https_ota_run(APP_OTA_FIRMWARE_URL)
RunUpdate ==
    /\ ota_pc = "update"
    /\ \E result \in OtaResults, lib_logs \in BOOLEAN :
         LET r == https_ota_run(cfg, result)
         IN  /\ cycle' = Append(cycle, Did("update", r.err = ESP_OK, <<r.err, r.started>>))
             /\ ota_logged' = ota_logged \o update_log(r, lib_logs)
             /\ ota_pc' = after_update(r.err)
    /\ UNCHANGED <<cfg, prev_blocked>>
    /\ UNCHANGED efuseVars
    /\ UNCHANGED crcVars
    /\ UNCHANGED demoVars

\* vTaskDelay(500 ms) returns and esp_restart() ends the process
Restart ==
    /\ ota_pc = "restart_wait"
    /\ ota_pc' = "restarted"
    /\ UNCHANGED <<cycle, cfg, ota_logged, prev_blocked>>
    /\ UNCHANGED efuseVars
    /\ UNCHANGED crcVars
    /\ UNCHANGED demoVars

\* vTaskDelay(APP_OTA_POLL_PERIOD_MS) returns: the next poll cycle starts
Delay ==
    /\ ota_pc = "delay"
    /\ ota_pc' = loop_again(cycle).pc
    /\ cycle' = loop_again(cycle).cycle
    /\ ota_logged' = <<>>
    /\ prev_blocked' = request_blocked(cycle)
    /\ UNCHANGED cfg
    /\ UNCHANGED efuseVars
    /\ UNCHANGED crcVars
    /\ UNCHANGED demoVars

OtaNext ==
    \/ OtaSetup
    \/ CheckRequest
    \/ CheckWindow
    \/ CheckBattery
    \/ CheckNetwork
    \/ RunUpdate
    \/ Restart
    \/ Delay

\* the OTA firmware once app_main has called ota_manager_start
InitOta == OtaInit /\ EfuseIdle /\ CrcIdle /\ DemoIdle

SpecOta == InitOta /\ [][OtaNext]_vars

\* every blocking call of the task returns: the HTTP and socket calls have
\* timeouts, vTaskDelay ends, the scheduler runs the task
SpecOtaFair == SpecOta /\ WF_vars(OtaNext)

-----------------------------------------------------------------------------
(* Properties of the OTA decision engine                                    *)

\* the order in which one poll cycle evaluates its gates and runs the update
GateOrder == <<"request", "window", "battery", "network", "update">>

\* the positions of the cycle record at which https_ota_run was called
UpdateRuns == {i \in 1..Len(cycle) : cycle[i].gate = "update"}

\* the button was seen pressed, or the trigger endpoint answered '1'
Requested(e) ==
    /\ e.gate = "request"
    /\ e.pass
    /\ \/ e.detail[1] = 0 /\ e.detail[2] = 0
       \/ e.detail[3] = "read_1"

\* the clock was inside the configured window, or no time was known and the
\* build allows updates without time
InWindow(e) ==
    /\ e.gate = "window"
    /\ e.pass
    /\ LET year == e.detail[1]
           hour == e.detail[2]
       IN  IF year < 2024 THEN cfg.allow_no_time
           ELSE \/ cfg.start = cfg.end
                \/ cfg.start < cfg.end /\ cfg.start <= hour /\ hour < cfg.end
                \/ cfg.start > cfg.end /\ (hour >= cfg.start \/ hour < cfg.end)

\* the battery reading was at or above the threshold
BatteryOk(e) ==
    /\ e.gate = "battery"
    /\ e.pass
    /\ e.detail[1] >= APP_BATT_MIN_MV

\* the probe connected to the firmware host
NetworkReady(e) ==
    /\ e.gate = "network"
    /\ e.pass
    /\ e.detail[1] = "connected"

\* the last step of the cycle was a gate or an update that failed
CycleFailed == cycle # <<>> /\ ~cycle[Len(cycle)].pass

\* a poll cycle is starting
NewCycle == ota_pc = "request" /\ cycle = <<>>

\* C8: https_ota_run is executed in a poll cycle only if in that same cycle
\* all four gates passed: the update was requested by the button or the
\* cloud, the maintenance window is open, the battery is at or above the
\* threshold and the network is ready.
C8_UpdateOnlyAfterAllGates ==
    /\ \A i \in UpdateRuns :
         /\ i = 5
         /\ Requested(cycle[1])
         /\ InWindow(cycle[2])
         /\ BatteryOk(cycle[3])
         /\ NetworkReady(cycle[4])
    /\ ota_pc \in {"update", "restart_wait", "restarted"} =>
         /\ Len(cycle) >= 4
         /\ Requested(cycle[1])
         /\ InWindow(cycle[2])
         /\ BatteryOk(cycle[3])
         /\ NetworkReady(cycle[4])

\* C8 witness: https_ota_run has run its transfer in a cycle of four passed
\* gates.
C8_Witness ==
    /\ Len(cycle) = 5
    /\ cycle[5].gate = "update"
    /\ cycle[5].detail[2]
    /\ \A i \in 1..4 : cycle[i].pass

\* C9: within one poll cycle the gates are evaluated in the order request,
\* maintenance window, battery, network, and none is evaluated after an
\* earlier one failed; when the update is not requested the window, battery
\* and network checks are not invoked in that cycle.
C9_GateOrder ==
    /\ Len(cycle) <= 5
    /\ \A i \in 1..Len(cycle) :
         /\ cycle[i].gate = GateOrder[i]
         /\ i < Len(cycle) => cycle[i].pass
    /\ (cycle # <<>> /\ ~cycle[1].pass) => Len(cycle) = 1 /\ ota_pc = "delay"

\* C9 witness: a cycle in which the update was not requested has reached its
\* delay.
C9_Witness ==
    /\ ota_pc = "delay"
    /\ Len(cycle) = 1
    /\ cycle[1].gate = "request"
    /\ ~cycle[1].pass

\* C10: the loop has no terminal failure state: after any gate failure or
\* update failure the task is in its delay and, every blocking call
\* returning, another poll cycle starts; the loop stops only in the restart
\* that follows a successful update.
C10_NoTerminalFailure ==
    /\ [](CycleFailed => ota_pc = "delay")
    /\ (CycleFailed ~> NewCycle)
    /\ []((~ENABLED OtaNext) =>
            /\ ota_pc = "restarted"
            /\ Len(cycle) = 5
            /\ cycle[5].gate = "update"
            /\ cycle[5].pass)

\* C10 witness: an update has failed (here on the certificate check) and the
\* task is in the loop's delay.
C10_Witness ==
    /\ ota_pc = "delay"
    /\ Len(cycle) = 5
    /\ cycle[5].gate = "update"
    /\ ~cycle[5].pass
    /\ cycle[5].detail[1] = "ESP_ERR_INVALID_SIZE"

\* the transfer of the current update attempt returned ESP_OK
TransferSucceeded ==
    /\ Len(cycle) = 5
    /\ cycle[5].gate = "update"
    /\ cycle[5].detail = <<ESP_OK, TRUE>>

\* the current update attempt ended with an error
UpdateFailed ==
    /\ Len(cycle) = 5
    /\ cycle[5].gate = "update"
    /\ cycle[5].detail[1] # ESP_OK

\* C11: the restart is triggered only after the HTTPS OTA transfer of the
\* current update attempt returned success; when the attempt fails the device
\* does not restart and the loop goes on to its delay and the next poll.
C11_RestartOnlyAfterSuccess ==
    /\ [](ota_pc \in {"restart_wait", "restarted"} => TransferSucceeded)
    /\ [][(ota_pc = "update" /\ UpdateFailed')
            => ota_pc' = "delay"]_vars
    /\ [][(UpdateFailed /\ ota_pc' # ota_pc)
            => (ota_pc' = "request" /\ cycle' = <<>>)]_vars

\* C11 witness: the device restarted after a transfer that returned ESP_OK.
C11_Witness == ota_pc = "restarted" /\ TransferSucceeded

\* C12: when an update attempt fails (https_ota_run returns an error) the
\* error is logged before the loop continues polling: the task is never in
\* the delay after a failed attempt without a log line written in that cycle.
C12_UpdateErrorLogged ==
    (UpdateFailed /\ ota_pc = "delay") => ota_logged # <<>>

-----------------------------------------------------------------------------
(* in_maintenance_window over every configured window                       *)

\* every start and end hour, with either policy for an unset clock
WindowConfigs ==
    {[DefaultCfg EXCEPT !.start = s, !.end = e, !.allow_no_time = a] :
        s \in 0..23, e \in 0..23, a \in BOOLEAN}

\* the task at the window gate of a cycle the button requested
InitWindow ==
    /\ EfuseIdle
    /\ CrcIdle
    /\ DemoIdle
    /\ ota_pc = "window"
    /\ cycle = <<Did("request", TRUE, <<0, 0, "not_called", <<>>>>)>>
    /\ cfg \in WindowConfigs
    /\ ota_logged = <<>>
    /\ prev_blocked = FALSE

SpecWindow == InitWindow /\ [][CheckWindow]_vars

\* the window gate of the current cycle has been evaluated
WindowChecked == Len(cycle) >= 2 /\ cycle[2].gate = "window"

\* C13 as stated: with start == end, in_maintenance_window returns true for
\* every hour and every state of the system clock.
C13_Original ==
    (WindowChecked /\ cfg.start = cfg.end) => cycle[2].pass

\* C13 amended: with start == end and the system time set (year >= 2024),
\* in_maintenance_window returns true for every hour 0..23.
C13_EqualHoursAlwaysOpen ==
    (WindowChecked /\ cfg.start = cfg.end /\ cycle[2].detail[1] >= 2024)
        => cycle[2].pass

\* C13 witness: a window with start == end was found open at a set clock.
C13_Witness ==
    /\ WindowChecked
    /\ cfg.start = cfg.end
    /\ cycle[2].detail = <<2024, 13>>
    /\ cycle[2].pass
    /\ ota_pc = "battery"

\* C14: with the system time set, in_maintenance_window is membership of the
\* hour in [start, end) with wraparound: for start < end it is true iff
\* start <= hour < end, for start > end iff hour >= start or hour < end, for
\* every hour 0..23.
C14_WindowMembership ==
    (WindowChecked /\ cycle[2].detail[1] >= 2024) =>
        LET hour == cycle[2].detail[2]
        IN  /\ cfg.start < cfg.end =>
                (cycle[2].pass <=> (cfg.start <= hour /\ hour < cfg.end))
            /\ cfg.start > cfg.end =>
                (cycle[2].pass <=> (hour >= cfg.start \/ hour < cfg.end))
            /\ ota_pc = (IF cycle[2].pass THEN "battery" ELSE "delay")

\* C14 witness: with the window 22..6 the gate was found open at hour 23 of a
\* set clock.
C14_Witness ==
    /\ WindowChecked
    /\ cfg.start = 22 /\ cfg.end = 6
    /\ cycle[2].detail = <<2024, 23>>
    /\ cycle[2].pass

\* C15: while the system time is not set (year < 2024), in_maintenance_window
\* returns the fallback policy APP_OTA_ALLOW_NO_TIME whatever the start and
\* end hours are.
C15_NoTimeFallback ==
    (WindowChecked /\ cycle[2].detail[1] < 2024) =>
        cycle[2].pass = cfg.allow_no_time

\* C15 witness: with an unset clock and the fallback allowing updates, the
\* gate was open at an hour outside the configured window.
C15_Witness ==
    /\ WindowChecked
    /\ cycle[2].detail = <<2023, 12>>
    /\ cfg.start = 22 /\ cfg.end = 6
    /\ cfg.allow_no_time
    /\ cycle[2].pass

-----------------------------------------------------------------------------
(* Further properties of the OTA decision engine                            *)

\* C16: the battery gate passes iff the reading is at or above the threshold
\* (a reading equal to the threshold passes, one millivolt less fails), so no
\* update is executed in a cycle whose battery reading is below the threshold.
C16_BatteryGate ==
    /\ \A i \in 1..Len(cycle) :
         cycle[i].gate = "battery" =>
            /\ cycle[i].detail[1] = cfg.batt_mv
            /\ cycle[i].pass <=> (cycle[i].detail[1] >= APP_BATT_MIN_MV)
            /\ (cycle[i].detail[1] = APP_BATT_MIN_MV) => cycle[i].pass
            /\ (cycle[i].detail[1] = APP_BATT_MIN_MV - 1) => ~cycle[i].pass
    /\ (UpdateRuns # {} \/ ota_pc = "update") => cfg.batt_mv >= APP_BATT_MIN_MV

\* C16 witness: an update was executed in a cycle whose battery reading
\* equalled the threshold.
C16_Witness ==
    /\ Len(cycle) = 5
    /\ cycle[3].gate = "battery"
    /\ cycle[3].detail[1] = APP_BATT_MIN_MV
    /\ cycle[3].pass
    /\ cycle[5].gate = "update"

\* the request gate of the current cycle found the button not pressed
ButtonIdle ==
    /\ cycle # <<>>
    /\ cycle[1].gate = "request"
    /\ ~(cycle[1].detail[1] = 0 /\ cycle[1].detail[2] = 0)

\* C17: the cloud trigger reports a request iff the GET to the trigger URL
\* was opened and read and the first response byte is '1'; an empty trigger
\* URL, a client-init failure, an open failure, an empty read or any other
\* first byte give no request.
C17_CloudTrigger ==
    ButtonIdle =>
        /\ cycle[1].pass <=> (cfg.trigger_url /\ cycle[1].detail[3] = "read_1")
        /\ cycle[1].detail[3] \in
              {"no_url", "init_failed", "open_failed", "read_nothing", "read_other"}
                 => ~cycle[1].pass
        /\ (cycle[1].detail[3] = "no_url") <=> ~cfg.trigger_url

\* C17 witness: with the button not pressed the trigger URL answered '1' and
\* the cycle went on to the window gate.
C17_Witness ==
    /\ ButtonIdle
    /\ cycle[1].detail[3] = "read_1"
    /\ cycle[1].pass
    /\ ota_pc = "window"

\* the embedded root certificate is shorter than 32 bytes
ShortCertificate == cfg.cert_len < MinCertLen

\* C18: with an embedded root certificate shorter than 32 bytes the update
\* attempt fails with ESP_ERR_INVALID_SIZE before any HTTPS transfer is
\* started, no restart happens, and the loop continues to the next cycle.
C18_ShortCertificate ==
    /\ []((ShortCertificate /\ UpdateRuns # {}) =>
            /\ cycle[5].detail = <<"ESP_ERR_INVALID_SIZE", FALSE>>
            /\ ota_pc = "delay")
    /\ [](ShortCertificate => ota_pc \notin {"restart_wait", "restarted"})
    /\ ((ShortCertificate /\ UpdateRuns # {}) ~> NewCycle)

\* C18 witness: https_ota_run was called with a 31-byte certificate and
\* returned without starting a transfer.
C18_Witness ==
    /\ cfg.cert_len = MinCertLen - 1
    /\ UpdateRuns = {5}
    /\ ~cycle[5].detail[2]
    /\ ota_logged = <<>>

\* the outcomes of cloud_trigger_requested in which the GET was sent
RequestSent == {"open_failed", "read_nothing", "read_1", "read_other"}

\* C19 as stated: the cloud-trigger poll performs its HTTPS request in every
\* poll cycle.
C19_Original ==
    cycle # <<>> => cycle[1].detail[3] \in RequestSent

\* C19 amended: in every poll cycle in which the button is not read as
\* pressed, cloud_trigger_requested is called before the window and battery
\* gates, so also in cycles in which those fail, and with a non-empty trigger
\* URL it creates its HTTPS client and, unless that fails, sends the request;
\* in a cycle in which the button is pressed it is not called.
C19_CloudPolledFirst ==
    cycle # <<>> =>
        /\ (cycle[1].detail[3] = "not_called")
              <=> (cycle[1].detail[1] = 0 /\ cycle[1].detail[2] = 0)
        /\ (ButtonIdle /\ cfg.trigger_url)
              => cycle[1].detail[3] \in RequestSent \cup {"init_failed"}
        /\ (ButtonIdle /\ Len(cycle) >= 2) => cycle[1].detail[3] = "read_1"

\* C19 witness: the trigger URL was polled in a cycle that the battery gate
\* then stopped.
C19_Witness ==
    /\ ButtonIdle
    /\ cycle[1].detail[3] \in RequestSent
    /\ Len(cycle) = 3
    /\ cycle[3].gate = "battery"
    /\ ~cycle[3].pass

\* the current cycle has got past its request gate
PastRequest ==
    \/ Len(cycle) >= 2
    \/ ota_pc \in {"window", "battery", "network", "update", "restart_wait", "restarted"}

\* C20: the update trigger has no persisted state: after a cycle in which a
\* request was seen and a later gate (window, battery or network) stopped it,
\* the next cycle starts with nothing kept, and it gets past its request gate
\* and executes an update only if the button or the cloud trigger is asserted
\* when sampled in that cycle.
C20_RequestNotRemembered ==
    /\ [](prev_blocked =>
            /\ PastRequest => Requested(cycle[1])
            /\ (cycle # <<>> /\ ~Requested(cycle[1]))
                  => (Len(cycle) = 1 /\ ota_pc = "delay"))
    /\ [][(ota_pc = "delay" /\ ota_pc' # "delay")
            => (ota_pc' = "request" /\ cycle' = <<>>)]_vars

\* C20 witness: after a cycle whose request a later gate stopped, a cycle
\* sampled the trigger again and executed the update.
C20_Witness ==
    /\ prev_blocked
    /\ Len(cycle) = 5
    /\ Requested(cycle[1])
    /\ cycle[5].gate = "update"

-----------------------------------------------------------------------------
(* The HTTP client of the cloud trigger                                     *)

\* the esp_http_client calls of the current cycle's request gate
TriggerCalls == cycle[1].detail[4]

\* the client handles alive after the first k of those calls
LiveClients(calls, k) ==
    Cardinality({i \in 1..k : calls[i].op = "init" /\ calls[i].ok})
      - Cardinality({i \in 1..k : calls[i].op = "cleanup"})

\* C21: the OTA engine holds at most one HTTPS client at any time: the client
\* of the cloud trigger is closed (if it was opened) and cleaned up on every
\* path before cloud_trigger_requested returns, hence before the update's
\* client is created.
C21_OneHttpClient ==
    cycle # <<>> =>
        /\ \A k \in 0..Len(TriggerCalls) : LiveClients(TriggerCalls, k) \in {0, 1}
        /\ LiveClients(TriggerCalls, Len(TriggerCalls)) = 0
        /\ \A i \in 1..Len(TriggerCalls) :
             (TriggerCalls[i].op = "open" /\ TriggerCalls[i].ok) =>
                \E j \in (i + 1)..Len(TriggerCalls) :
                    /\ TriggerCalls[j].op = "close"
                    /\ \E m \in (j + 1)..Len(TriggerCalls) : TriggerCalls[m].op = "cleanup"
        /\ \A i \in UpdateRuns : i > 1

\* C21 witness: the trigger's client could not be opened and its handle was
\* released before the function returned.
C21_Witness ==
    /\ cycle # <<>>
    /\ cycle[1].detail[3] = "open_failed"
    /\ Len(TriggerCalls) = 3
    /\ TriggerCalls[3].op = "cleanup"

-----------------------------------------------------------------------------
(* crc16_ccitt_false on its own                                             *)

\* the longest byte sequence tried from CrcBytes
MaxCrcLen == 3
\* byte values with no, one, the lowest, the highest and all bits set
CrcBytes == {0, 1, 49, 128, 255}
\* "123456789", the standard check input of the CRC catalogue
CrcCheckInput == <<49, 50, 51, 52, 53, 54, 55, 56, 57>>
\* the byte sequences the function is called with
CrcInputs ==
    UNION {[1..n -> CrcBytes] : n \in 0..MaxCrcLen}
      \cup {CrcCheckInput, desired_payload(SerialDemo, 1, 15)}

\* a call of crc16_ccitt_false is about to be made
InitCrc ==
    /\ EfuseIdle
    /\ OtaIdle
    /\ DemoIdle
    /\ crc_data \in CrcInputs
    /\ crc_out = <<>>

\* the call returns
CrcCompute ==
    /\ crc_out = <<>>
    /\ crc_out' = <<crc16_ccitt_false(crc_data)>>
    /\ UNCHANGED crc_data
    /\ UNCHANGED efuseVars
    /\ UNCHANGED otaVars
    /\ UNCHANGED demoVars

SpecCrc == InitCrc /\ [][CrcCompute]_vars

\* CRC-16/CCITT-FALSE as the bit-serial reference: a 16-bit shift register,
\* started at 0xFFFF, fed the message bits most significant first; when the
\* bit shifted out differs from the message bit the polynomial 0x1021 is
\* added; nothing is reflected and the register is the result
RefCrcBit(reg, bit) ==
    LET shifted == (reg * 2) % 65536
    IN  IF (reg \div 32768) # bit THEN Xor16(shifted, 4129) ELSE shifted

RECURSIVE RefCrcByte(_, _, _)
RefCrcByte(reg, byte, k) ==
    IF k = 8 THEN reg
    ELSE LET next == RefCrcBit(reg, (byte \div (2 ^ (7 - k))) % 2)
         IN  IF next >= 0 THEN RefCrcByte(next, byte, k + 1) ELSE 0

RECURSIVE RefCrc(_, _)
RefCrc(data, len) ==
    IF len = 0 THEN 65535
    ELSE LET reg == RefCrc(data, len - 1)
         IN  IF reg >= 0 THEN RefCrcByte(reg, data[len], 0) ELSE 0

\* C22: crc16_ccitt_false computes CRC-16/CCITT-FALSE (poly 0x1021, init
\* 0xFFFF, no reflection, xorout 0) with 16-bit intermediate values: for
\* every input its result equals the bit-serial reference, lies in
\* 0..0xFFFF, and "123456789" gives the catalogue's check value 0x29B1.
C22_CrcMatchesReference ==
    crc_out # <<>> =>
        /\ crc_out[1] = RefCrc(crc_data, Len(crc_data))
        /\ crc_out[1] \in 0..65535
        /\ crc_data = CrcCheckInput => crc_out[1] = 10673
        /\ crc_data = <<>> => crc_out[1] = 65535

\* C22 witness: the CRC of the 22-byte demo payload was computed.
C22_Witness ==
    /\ Len(crc_data) = 22
    /\ crc_data = desired_payload(SerialDemo, 1, 15)
    /\ crc_out = <<13061>>

-----------------------------------------------------------------------------
(* Further properties of the provisioning routine                           *)

\* what the arguments a of a call ask to be stored, written out byte by byte:
\* the serial cut to 16 characters and padded with zero bytes, hw_rev and
\* flags least significant byte first, and the reference CRC of those 22
\* bytes, low byte first
ExpectedSerial(a) ==
    [i \in 1..16 |->
        IF i <= Len(a.serial_ascii.chars) THEN a.serial_ascii.chars[i] ELSE 0]
ExpectedHwRev(a) == <<a.hw_rev % 256, a.hw_rev \div 256>>
ExpectedFlags(a) ==
    <<a.flags % 256, (a.flags \div 256) % 256,
      (a.flags \div 65536) % 256, a.flags \div 16777216>>
ExpectedPayload(a) == ExpectedSerial(a) \o ExpectedHwRev(a) \o ExpectedFlags(a)
ExpectedCrc(a) ==
    LET c == RefCrc(ExpectedPayload(a), 22) IN <<c % 256, c \div 256>>
ExpectedField(a, f) ==
    CASE f = "SERIAL_NUMBER"      -> ExpectedSerial(a)
      [] f = "HW_REV"             -> ExpectedHwRev(a)
      [] f = "FEATURE_FLAGS"      -> ExpectedFlags(a)
      [] f = "PROVISIONING_CRC16" -> ExpectedCrc(a)

\* the store st holds exactly what the arguments a ask for
StoreIs(st, a) == \A f \in FieldNames : st[f] = ExpectedField(a, f)

\* C23 as stated: whenever a call returns ESP_OK the stored serial, hw_rev
\* and flags equal the desired payload built from its arguments and the
\* stored CRC is the CRC of that payload.
C23_Original ==
    [][(ProgramStep /\ ret' = ESP_OK) => StoreIs(efuse', args')]_vars

\* C23 amended: the same for every call that returns ESP_OK and in which the
\* provisioning check did not report the device provisioned.
C23_StoredEqualsDesired ==
    [][(ProgramStep /\ ret' = ESP_OK /\ ~prov') => StoreIs(efuse', args')]_vars

\* C23 witness: a call on a device not reported provisioned committed its
\* batch and returned ESP_OK.
C23_Witness ==
    /\ ret = ESP_OK
    /\ ~prov
    /\ \E i \in 1..Len(log) : log[i].op = "commit" /\ log[i].err = ESP_OK
    /\ StoreIs(efuse, args)
    /\ args.serial_ascii.chars = SerialLong

WantedCrc(a) ==
    LET c == crc16_ccitt_false(ExpectedPayload(a)) IN <<c % 256, c \div 256>>
WantedField(a, f) ==
    IF f = "PROVISIONING_CRC16" THEN WantedCrc(a) ELSE ExpectedField(a, f)

\* write call w of a call with arguments a on the store st stages exactly
\* the wanted bits that st does not hold yet, and at least one bit
StagesDelta(w, a, st) ==
    /\ Len(w.data) = FieldSize[w.field]
    /\ \A k \in 1..FieldSize[w.field] :
          /\ w.data[k] = And8(WantedField(a, w.field)[k], Not8(st[w.field][k]))
          /\ And8(w.data[k], st[w.field][k]) = 0
    /\ \E k \in 1..FieldSize[w.field] : w.data[k] # 0

\* C25: every value efuse_program_custom_fields passes to the field-write
\* operation is desired & ~current of that field, so it has no bit that is
\* already set in storage, and it is never all-zero.
C25_StagedIsDelta ==
    [][ProgramStep =>
          \A i \in 1..Len(log') :
              log'[i].op = "write" => StagesDelta(log'[i], args', efuse)]_vars

\* C25 witness: a call on a store that already holds one bit of the serial
\* staged the serial without that bit and skipped nothing else it needed.
C25_Witness ==
    /\ ret = ESP_OK
    /\ \E i \in 1..Len(log) :
          /\ log[i].op = "write"
          /\ log[i].field = "SERIAL_NUMBER"
          /\ log[i].data # ExpectedSerial(args)
          /\ \A k \in 1..16 :
                And8(log[i].data[k], Not8(ExpectedSerial(args)[k])) = 0
    /\ \E i \in 1..Len(log) : log[i].op = "commit" /\ log[i].err = ESP_OK


\* every wanted bit of every field is already set in the store st
AllDeltasZero(st, a) ==
    \A f \in FieldNames : \A k \in 1..FieldSize[f] :
        And8(WantedField(a, f)[k], Not8(st[f][k])) = 0

\* the store st holds a bit, in some field, that the wanted value lacks
AnyConflict(st, a) ==
    \E f \in FieldNames : \E k \in 1..FieldSize[f] :
        And8(st[f][k], Not8(WantedField(a, f)[k])) # 0

\* the call returned ESP_OK, made none of begin, write, cancel or commit, and
\* left the store as it was
SuccessWithoutWriting ==
    ret' = ESP_OK /\ WriteCalls(log') = {} /\ efuse' = efuse

\* C26 as stated: whenever desired & ~current is zero for all four fields,
\* the call returns ESP_OK without begin, write or commit and leaves the
\* store unchanged.
C26_Original ==
    [][(/\ ProgramStep
        /\ ~args'.serial_ascii.null
        /\ AllDeltasZero(efuse, args'))
         => SuccessWithoutWriting]_vars

\* C26 amended: the same, provided no stored field holds a bit the desired
\* value lacks and none of the function's own four reads fails.
C26_NoNewBitsNoWrite ==
    [][(/\ ProgramStep
        /\ ~args'.serial_ascii.null
        /\ prov' \/ OwnReadsOk(log')
        /\ ~AnyConflict(efuse, args')
        /\ AllDeltasZero(efuse, args'))
         => SuccessWithoutWriting]_vars

\* C26 witness: a call on a device not reported provisioned read the four
\* fields, found no conflict and no new bit, and returned ESP_OK.
C26_Witness ==
    /\ ret = ESP_OK
    /\ ~args.serial_ascii.null
    /\ ~prov
    /\ OwnReadsOk(log)
    /\ ~AnyConflict(efuse, args)
    /\ AllDeltasZero(efuse, args)
    /\ WriteCalls(log) = {}


\* the positions of a log at which a batch is opened, and at which one is
\* closed by commit or cancel
Begins(lg) == {i \in 1..Len(lg) : lg[i].op = "begin"}
Ends(lg)   == {i \in 1..Len(lg) : lg[i].op \in {"commit", "cancel"}}
Writes(lg) == {i \in 1..Len(lg) : lg[i].op = "write"}

\* the calls of one program call form at most one batch: every field write
\* lies after a successful begin and before the commit or cancel, a
\* successful begin is closed by exactly one commit or cancel, which is the
\* last call made, and nothing follows a failed begin
BatchShape(lg) ==
    /\ Cardinality(Begins(lg)) <= 1
    /\ \A i \in Writes(lg) :
          /\ \E j \in Begins(lg) : j < i /\ lg[j].err = ESP_OK
          /\ \A e \in Ends(lg) : i < e
    /\ \A j \in Begins(lg) :
          IF lg[j].err = ESP_OK
          THEN Cardinality({e \in Ends(lg) : j < e}) = 1
          ELSE j = Len(lg)
    /\ \A e \in Ends(lg) :
          /\ e = Len(lg)
          /\ \E j \in Begins(lg) : j < e /\ lg[j].err = ESP_OK

\* the fields in which the call with arguments a wants a bit st lacks
FieldsWithDelta(st, a) ==
    {f \in FieldNames :
        \E k \in 1..FieldSize[f] :
            And8(WantedField(a, f)[k], Not8(st[f][k])) # 0}

\* C27: the field writes of one efuse_program_custom_fields call happen only
\* between a successful batch begin and the commit or cancel that closes it,
\* every successful begin is followed before the return by exactly one of
\* commit or cancel, and a batch that is committed has staged every field
\* with a non-zero delta.
C27_SingleBatch ==
    [][ProgramStep =>
          /\ BatchShape(log')
          /\ (\E e \in Ends(log') : log'[e].op = "commit")
                => {log'[i].field : i \in Writes(log')}
                       = FieldsWithDelta(efuse, args')]_vars

\* C27 witness: one call opened a batch, staged all four fields in it and
\* committed it.
C27_Witness ==
    /\ ret = ESP_OK
    /\ Cardinality(Writes(log)) = 4
    /\ \E j \in Begins(log) : log[j].err = ESP_OK
    /\ \E e \in Ends(log) : log[e].op = "commit" /\ log[e].err = ESP_OK


\* the stored CRC holds a bit that the CRC of the wanted payload lacks
CrcConflict(st, a) ==
    /\ st["PROVISIONING_CRC16"] # Zeros(2)
    /\ LET w == WantedCrc(a)
       IN  \E k \in 1..2 : And8(st["PROVISIONING_CRC16"][k], Not8(w[k])) # 0

\* the call was refused for a conflict and wrote nothing
RefusedWithoutWriting ==
    ret' = ESP_ERR_INVALID_STATE /\ WriteCalls(log') = {} /\ efuse' = efuse

\* C28 as stated: on a device that is not provisioned, whenever the stored
\* CRC has a bit the desired CRC lacks, the call returns
\* ESP_ERR_INVALID_STATE and writes nothing.
C28_Original ==
    [][(/\ ProgramStep
        /\ ~args'.serial_ascii.null
        /\ ~StoreProvisioned(efuse)
        /\ CrcConflict(efuse, args'))
         => RefusedWithoutWriting]_vars

\* C28 amended: the same for every call with a non-NULL serial in which the
\* provisioning check does not report the device provisioned and the
\* function's own four reads succeed, whether or not serial, hw_rev and
\* flags conflict.
C28_CrcConflictDetected ==
    [][(/\ ProgramStep
        /\ ~args'.serial_ascii.null
        /\ ~prov'
        /\ OwnReadsOk(log')
        /\ CrcConflict(efuse, args'))
         => RefusedWithoutWriting]_vars

\* C28 witness: a call was refused although only the CRC field conflicts.
C28_Witness ==
    /\ ret = ESP_ERR_INVALID_STATE
    /\ ~args.serial_ascii.null
    /\ ~prov
    /\ OwnReadsOk(log)
    /\ CrcConflict(efuse, args)
    /\ ~PayloadConflict(efuse, args)


\* the slice of a 22-byte payload that belongs to field f
PayloadSlice(p, f) ==
    CASE f = "SERIAL_NUMBER" -> SubSeq(p, 1, 16)
      [] f = "HW_REV"        -> SubSeq(p, 17, 18)
      [] f = "FEATURE_FLAGS" -> SubSeq(p, 19, 22)

\* C29: the desired payload of a call is 22 bytes: the first
\* min(strlen(serial), 16) characters of the serial, zero bytes up to 16,
\* hw_rev as 2 little-endian bytes and flags as 4 little-endian bytes; and
\* what a call stages into a blank serial, hw_rev or flags field is that
\* field's slice of the payload.
C29_PayloadLayout ==
    [][(ProgramStep /\ ~args'.serial_ascii.null) =>
          LET p == desired_payload(args'.serial_ascii.chars, args'.hw_rev, args'.flags)
          IN  /\ Len(p) = 22
              /\ p = ExpectedPayload(args')
              /\ \A i \in Writes(log') :
                    (/\ log'[i].field # "PROVISIONING_CRC16"
                     /\ efuse[log'[i].field] = Zeros(FieldSize[log'[i].field]))
                      => log'[i].data = PayloadSlice(ExpectedPayload(args'), log'[i].field)]_vars

\* C29 witness: a call with an 18-character serial, a two-byte hw_rev and a
\* four-byte flags value committed the first 16 characters, and both values
\* least significant byte first, into a blank store.
C29_Witness ==
    /\ ret = ESP_OK
    /\ args.serial_ascii.chars = SerialLong
    /\ args.hw_rev = 513
    /\ args.flags = 16777231
    /\ \E i \in Writes(log) :
          log[i].field = "SERIAL_NUMBER" /\ log[i].data = SubSeq(SerialLong, 1, 16)
    /\ \E i \in Writes(log) :
          log[i].field = "HW_REV" /\ log[i].data = <<1, 2>>
    /\ \E i \in Writes(log) :
          log[i].field = "FEATURE_FLAGS" /\ log[i].data = <<15, 0, 0, 1>>
    /\ efuse["SERIAL_NUMBER"] = SubSeq(SerialLong, 1, 16)


------------------------------------------------------------------------------
(* Further properties of the update decision task                           *)

\* in the current cycle the update was requested, the window, battery and
\* network gates passed, and the transfer returned ESP_OK
UpdateSucceeded ==
    /\ TransferSucceeded
    /\ Requested(cycle[1])
    /\ InWindow(cycle[2])
    /\ BatteryOk(cycle[3])
    /\ NetworkReady(cycle[4])

\* C30: once, in a poll cycle, the update is requested, the window, battery
\* and network gates pass and the HTTPS OTA transfer succeeds, the restart
\* eventually occurs (every blocking call returning), and until then no gate
\* is evaluated again: the task's only step is the restart itself and the
\* cycle's record stays as it is.
C30_SuccessLeadsToRestart ==
    /\ (UpdateSucceeded ~> ota_pc = "restarted")
    /\ [][UpdateSucceeded => (ota_pc' = "restarted" /\ cycle' = cycle)]_vars
    /\ [](ota_pc = "restarted" => ~ENABLED OtaNext)

\* C30 witness: the transfer of a cycle in which all gates passed has
\* returned ESP_OK and the task is in the wait before esp_restart.
C30_Witness == ota_pc = "restart_wait" /\ UpdateSucceeded


\* the task is in the poll-period delay that ends a poll cycle
CycleEnded == ota_pc = "delay"

\* C31: a poll cycle that does not end in a restart waits one poll period,
\* exactly once, before the next cycle's trigger evaluation, whichever gate
\* failed or whether the update attempt failed: a failed gate or update
\* leaves the task in the delay, the trigger evaluation of a later cycle is
\* entered only from that delay, the delay is followed at once by the new
\* cycle, and the delay is eventually over; a cycle holds at most one update
\* attempt.
C31_OneDelayPerCycle ==
    /\ [](CycleFailed => CycleEnded)
    /\ [][(ota_pc' = "request" /\ ota_pc # "request")
            => (ota_pc \in {"setup", "delay"} /\ cycle' = <<>>)]_vars
    /\ [][(ota_pc = "request" /\ ota_pc' # "request")
            => (cycle = <<>> /\ Len(cycle') = 1)]_vars
    /\ [][CycleEnded => (ota_pc' = "request" /\ cycle' = <<>>)]_vars
    /\ [][CycleEnded' => (ota_pc # "delay" /\ CycleFailed')]_vars
    /\ (CycleEnded ~> NewCycle)
    /\ [](Cardinality(UpdateRuns) <= 1)

\* C31 witness: the task is in the poll-period delay after an update attempt
\* that failed in the transfer.
C31_Witness ==
    /\ CycleEnded
    /\ Cardinality(UpdateRuns) = 1
    /\ UpdateFailed
    /\ cycle[5].detail[2]


\* the two samples of the button level taken in the current cycle
BothLow == cycle[1].detail[1] = 0 /\ cycle[1].detail[2] = 0
OneLow  == (cycle[1].detail[1] = 0) # (cycle[1].detail[2] = 0)

\* C32: the button counts as pressed iff the samples taken before and after
\* the 30 ms wait are both low: then the cycle is requested without asking
\* the cloud; with only one sample low, or none, the button is not a press,
\* the cloud is asked, and the cycle is requested only if the cloud says so.
C32_ButtonDebounce ==
    cycle # <<>> =>
        /\ BothLow => (cycle[1].pass /\ cycle[1].detail[3] = "not_called")
        /\ ~BothLow =>
              /\ cycle[1].detail[3] # "not_called"
              /\ cycle[1].pass <=> cycle[1].detail[3] = "read_1"

\* C32 witness: the level was low in one sample only, the cloud did not ask
\* for an update, and the cycle ended at the request gate.
C32_Witness ==
    /\ cycle # <<>>
    /\ OneLow
    /\ ~cycle[1].pass
    /\ ota_pc = "delay"


\* the resolver and socket calls of the current cycle's network gate
ProbeCalls == cycle[4].detail[2]

\* the call `op` was made in the probe and succeeded
ProbeOk(op) ==
    \E i \in 1..Len(ProbeCalls) : ProbeCalls[i].op = op /\ ProbeCalls[i].ok

\* how often the call `op` was made after the i-th call of the probe
ProbeLater(op, i) ==
    Cardinality({j \in (i + 1)..Len(ProbeCalls) : ProbeCalls[j].op = op})

\* C33: network_ready_check returns true iff the host was parsed and DNS
\* resolution, socket creation and the TCP connect to port 443 all succeeded;
\* on every path a socket that was opened is closed once and an address list
\* that was obtained is freed once, after the socket is closed, before the
\* function returns.
C33_NetworkProbe ==
    (Len(cycle) >= 4 /\ cycle[4].gate = "network") =>
        /\ cycle[4].pass <=>
              /\ parse_https_host(cfg.fw_url, HostBufLen) = 0
              /\ ProbeOk("getaddrinfo")
              /\ ProbeOk("socket")
              /\ ProbeOk("connect")
        /\ \A i \in 1..Len(ProbeCalls) :
              /\ ProbeCalls[i].op \in {"getaddrinfo", "connect"}
                    => ProbeCalls[i].port = 443
              /\ (ProbeCalls[i].op = "socket" /\ ProbeCalls[i].ok)
                    => ProbeLater("close", i) = 1
              /\ (ProbeCalls[i].op = "getaddrinfo" /\ ProbeCalls[i].ok)
                    => ProbeLater("freeaddrinfo", i) = 1
              /\ ProbeCalls[i].op = "close"
                    => (ProbeOk("socket") /\ ProbeLater("freeaddrinfo", i) = 1)
              /\ ProbeCalls[i].op = "freeaddrinfo" => i = Len(ProbeCalls)
        /\ ~ProbeOk("socket") => ProbeLater("close", 0) = 0
        /\ ~ProbeOk("getaddrinfo") => ProbeLater("freeaddrinfo", 0) = 0

\* C33 witness: the probe resolved the host and opened a socket, the connect
\* failed, and socket and address list were released before the gate failed.
C33_Witness ==
    /\ Len(cycle) = 4
    /\ cycle[4].gate = "network"
    /\ ~cycle[4].pass
    /\ cycle[4].detail[1] = "connect_failed"
    /\ Len(ProbeCalls) = 5
    /\ ota_pc = "delay"


------------------------------------------------------------------------------
(* Wi-Fi station start-up: wifi_event_handler and wifi_station_start        *)

\* everything but the Wi-Fi station code stands still
WifiRest == <<efuseVars, otaVars, crcVars, pgVars, poolVars, queueVars, notifyVars, evtVars>>

WIFI_CONNECTED_BIT == 1     \* BIT0
WIFI_FAIL_BIT      == 2     \* BIT1
\* the number of reconnects the handler tries: "if (s_retry_count < 10)"
MaxRetry == 10

\* mutant: the retry test is "<=", one more reconnect is tried
wifi_event_handler_le(event, count, bits) ==
    CASE event = "STA_START" ->
            [count |-> count, bits |-> bits, connect |-> TRUE]
      [] event = "STA_DISCONNECTED" ->
            IF count <= MaxRetry
            THEN [count |-> count + 1, bits |-> bits, connect |-> TRUE]
            ELSE [count |-> count, bits |-> bits \cup {WIFI_FAIL_BIT}, connect |-> FALSE]
      [] event = "STA_GOT_IP" ->
            [count |-> 0, bits |-> bits \cup {WIFI_CONNECTED_BIT}, connect |-> FALSE]

\* wifi_event_handler: the retry counter and the event group bits it leaves,
\* and whether it called esp_wifi_connect
wifi_event_handler(event, count, bits) ==
    CASE event = "STA_START" ->
            [count |-> count, bits |-> bits, connect |-> TRUE]
      [] event = "STA_DISCONNECTED" ->
            IF count < MaxRetry
            THEN [count |-> count + 1, bits |-> bits, connect |-> TRUE]
            ELSE [count |-> count, bits |-> bits \cup {WIFI_FAIL_BIT}, connect |-> FALSE]
      [] event = "STA_GOT_IP" ->
            [count |-> 0, bits |-> bits \cup {WIFI_CONNECTED_BIT}, connect |-> FALSE]

\* mutant: success is the absence of the FAIL bit
wait_result_nofail(bits) ==
    IF WIFI_FAIL_BIT \notin bits THEN ESP_OK ELSE "ESP_FAIL"

\* "if (bits & WIFI_CONNECTED_BIT) return ESP_OK; ... return ESP_FAIL;"
wait_result(bits) ==
    IF WIFI_CONNECTED_BIT \in bits THEN ESP_OK ELSE "ESP_FAIL"

\* the event the driver can post next, and the driver's state after the
\* handler ran: a connect attempt ends in STA_GOT_IP or STA_DISCONNECTED, a
\* connection can be lost, and without a new esp_wifi_connect nothing follows
\* a disconnect
WifiEvents(link) ==
    CASE link = "started"    -> {"STA_START"}
      [] link = "connecting" -> {"STA_GOT_IP", "STA_DISCONNECTED"}
      [] link = "connected"  -> {"STA_DISCONNECTED"}
      [] OTHER               -> {}
link_after(event, connect) ==
    IF connect THEN "connecting"
    ELSE IF event = "STA_GOT_IP" THEN "connected" ELSE "stopped"

\* app_main is about to call wifi_station_start
WifiInit ==
    /\ wifi_pc = "start"
    /\ wifi_ssid \in BOOLEAN
    /\ s_retry_count = 0
    /\ wifi_bits = {}
    /\ wifi_link = "off"
    /\ wifi_last = <<>>
    /\ wifi_ret = <<>>

\* wifi_station_start up to esp_wifi_start: the SSID check, the event group,
\* the handler registration
WifiStart ==
    /\ wifi_pc = "start"
    /\ \E created \in BOOLEAN :
         IF ~wifi_ssid
         THEN /\ wifi_ret' = <<{}, "ESP_ERR_INVALID_ARG">>
              /\ wifi_pc' = "done"
              /\ UNCHANGED wifi_link
         ELSE IF ~created
         THEN /\ wifi_ret' = <<{}, "ESP_ERR_NO_MEM">>
              /\ wifi_pc' = "done"
              /\ UNCHANGED wifi_link
         ELSE /\ wifi_pc' = "started"
              /\ wifi_link' = "started"
              /\ UNCHANGED wifi_ret
    /\ UNCHANGED <<wifi_ssid, s_retry_count, wifi_bits, wifi_last>>
    /\ UNCHANGED WifiRest

\* the event loop task delivers one event to wifi_event_handler; a bit set
\* while wifi_station_start is blocked in xEventGroupWaitBits unblocks it
\* with the bits as they are then
WifiEvent ==
    /\ \E event \in WifiEvents(wifi_link) :
         LET h == wifi_event_handler(event, s_retry_count, wifi_bits)
         IN  /\ s_retry_count' = h.count
             /\ wifi_bits' = h.bits
             /\ wifi_last' = <<event, h.connect, s_retry_count>>
             /\ wifi_link' = link_after(event, h.connect)
             /\ IF wifi_pc = "wait" /\ h.bits # {}
                THEN wifi_pc' = "woken" /\ wifi_ret' = <<h.bits>>
                ELSE UNCHANGED <<wifi_pc, wifi_ret>>
    /\ UNCHANGED wifi_ssid
    /\ UNCHANGED WifiRest

\* wifi_station_start calls xEventGroupWaitBits: it returns at once if a bit
\* is already set, else the task blocks
WifiWaitBits ==
    /\ wifi_pc = "started"
    /\ IF wifi_bits # {}
       THEN wifi_pc' = "woken" /\ wifi_ret' = <<wifi_bits>>
       ELSE wifi_pc' = "wait" /\ UNCHANGED wifi_ret
    /\ UNCHANGED <<wifi_ssid, s_retry_count, wifi_bits, wifi_link, wifi_last>>
    /\ UNCHANGED WifiRest

\* the 20 s of xEventGroupWaitBits pass with no bit set
WifiTimeout ==
    /\ wifi_pc = "wait"
    /\ wifi_pc' = "woken"
    /\ wifi_ret' = <<wifi_bits>>
    /\ UNCHANGED <<wifi_ssid, s_retry_count, wifi_bits, wifi_link, wifi_last>>
    /\ UNCHANGED WifiRest

\* wifi_station_start returns on the bits xEventGroupWaitBits gave it
WifiReturn ==
    /\ wifi_pc = "woken"
    /\ wifi_ret' = <<wifi_ret[1], wait_result(wifi_ret[1])>>
    /\ wifi_pc' = "done"
    /\ UNCHANGED <<wifi_ssid, s_retry_count, wifi_bits, wifi_link, wifi_last>>
    /\ UNCHANGED WifiRest

WifiNext == WifiStart \/ WifiEvent \/ WifiWaitBits \/ WifiTimeout \/ WifiReturn

InitWifi == WifiInit /\ EfuseIdle /\ OtaIdle /\ CrcIdle /\ PgIdle /\ PoolIdle /\ QueueIdle /\ NotifyIdle /\ EvtIdle

SpecWifi == InitWifi /\ [][WifiNext]_vars

\* this step is wifi_event_handler handling `event`
Handled(event) ==
    /\ <<s_retry_count, wifi_bits, wifi_link, wifi_last>>'
          # <<s_retry_count, wifi_bits, wifi_link, wifi_last>>
    /\ wifi_last' # <<>>
    /\ wifi_last'[1] = event

\* C34: the retry counter stays in 0..10; a disconnect event with the
\* counter below 10 increments it and issues one reconnect; a disconnect
\* with the counter at 10 issues no reconnect and sets the FAIL bit; a got-IP
\* event resets the counter and sets the CONNECTED bit; wifi_station_start,
\* once it waited, returns ESP_OK iff the CONNECTED bit was set when its
\* wait ended.
C34_RetryCounter ==
    /\ [](s_retry_count \in 0..10)
    /\ [][Handled("STA_DISCONNECTED")
            => IF s_retry_count < 10
               THEN /\ s_retry_count' = s_retry_count + 1
                    /\ wifi_last'[3] = s_retry_count
                    /\ wifi_last'[2]
                    /\ wifi_bits' = wifi_bits
               ELSE /\ s_retry_count' = 10
                    /\ ~wifi_last'[2]
                    /\ wifi_bits' = wifi_bits \cup {WIFI_FAIL_BIT}]_vars
    /\ [][Handled("STA_GOT_IP")
            => /\ s_retry_count' = 0
               /\ ~wifi_last'[2]
               /\ wifi_bits' = wifi_bits \cup {WIFI_CONNECTED_BIT}]_vars
    /\ [][(wifi_pc \in {"started", "wait"} /\ wifi_pc' = "woken")
            => wifi_ret' = <<wifi_bits'>>]_vars
    /\ [][(wifi_pc = "woken" /\ wifi_pc' # "woken")
            => /\ wifi_pc' = "done"
               /\ wifi_ret'[1] = wifi_ret[1]
               /\ wifi_ret'[2] = IF WIFI_CONNECTED_BIT \in wifi_ret[1]
                                 THEN ESP_OK ELSE "ESP_FAIL"]_vars

\* C34 witness: the eleventh disconnect in a row found the counter at 10, set
\* the FAIL bit without reconnecting, and wifi_station_start returned
\* ESP_FAIL.
C34_Witness ==
    /\ s_retry_count = 10
    /\ wifi_last = <<"STA_DISCONNECTED", FALSE, 10>>
    /\ wifi_bits = {WIFI_FAIL_BIT}
    /\ wifi_pc = "done"
    /\ wifi_ret = <<{WIFI_FAIL_BIT}, "ESP_FAIL">>


------------------------------------------------------------------------------
(* Power gating demo: app_main and its three tasks                          *)

\* everything but the power gating demo stands still
PgRest == <<efuseVars, otaVars, crcVars, wifiVars, poolVars, queueVars, notifyVars, evtVars>>

EVT_MEAS_DONE == 1      \* (1U << 0)
EVT_COMM_DONE == 2      \* (1U << 1)

\* pg_drive_off / pg_drive_on: the level that switches the rail off / on
pg_drive_off(c) == IF c.active_high THEN 0 ELSE 1
pg_drive_on(c)  == IF c.active_high THEN 1 ELSE 0
\* pg_set_enabled
pg_set_enabled(c, enable) == IF enable THEN pg_drive_on(c) ELSE pg_drive_off(c)

\* the gated rail is powered: the enable pin is driven to its ON level (an
\* undriven pin leaves the rail off by the board's resistor)
RailOn == pg_level = <<pg_drive_on(pg_cfg)>>

\* xEventGroupWaitBits(s_evt, wanted, pdFALSE, wait_all, portMAX_DELAY)
\* can return
wait_bits_done(bits, wanted, wait_all) ==
    IF wait_all THEN wanted \subseteq bits ELSE wanted \cap bits # {}

\* the wait of task_comm
comm_ready(bits) == wait_bits_done(bits, {EVT_MEAS_DONE}, TRUE)

\* mutant: the power manager waits for any of the two bits
mgr_ready_any(bits) == wait_bits_done(bits, {EVT_MEAS_DONE, EVT_COMM_DONE}, FALSE)

\* the wait of task_power_manager
mgr_ready(bits) == wait_bits_done(bits, {EVT_MEAS_DONE, EVT_COMM_DONE}, TRUE)

\* nothing runs any more: the chip is in deep sleep or has panicked
PgHalted ==
    pg_trace # <<>> /\ pg_trace[Len(pg_trace)] \in {"deep_sleep", "panic"}

\* reset: app_main is about to run
PgInit ==
    /\ pg_cfg \in [active_high : BOOLEAN, evt_ok : BOOLEAN]
    /\ pg_level = <<>>
    /\ pg_main = "boot"
    /\ pg_meas = "none"
    /\ pg_comm = "none"
    /\ pg_mgr = "none"
    /\ pg_bits = {}
    /\ pg_trace = <<>>

\* app_main: xEventGroupCreate, bus_safe_init, pg_init
PgBoot ==
    /\ pg_main = "boot"
    /\ pg_level' = <<pg_drive_off(pg_cfg)>>
    /\ pg_trace' = pg_trace \o <<"bus_safe_init", "pg_init">>
    /\ pg_main' = "create_meas"
    /\ UNCHANGED <<pg_cfg, pg_meas, pg_comm, pg_mgr, pg_bits>>
    /\ UNCHANGED PgRest

\* app_main: the next xTaskCreate
PgCreate ==
    /\ ~PgHalted
    /\ \/ /\ pg_main = "create_meas"
          /\ pg_meas' = "enable"
          /\ pg_main' = "create_comm"
          /\ UNCHANGED <<pg_comm, pg_mgr>>
       \/ /\ pg_main = "create_comm"
          /\ pg_comm' = "wait"
          /\ pg_main' = "create_mgr"
          /\ UNCHANGED <<pg_meas, pg_mgr>>
       \/ /\ pg_main = "create_mgr"
          /\ pg_mgr' = "wait"
          /\ pg_main' = "done"
          /\ UNCHANGED <<pg_meas, pg_comm>>
    /\ UNCHANGED <<pg_cfg, pg_level, pg_bits, pg_trace>>
    /\ UNCHANGED PgRest

\* task_measurement: pg_set_enabled(true), then the stabilisation delay
MeasEnable ==
    /\ ~PgHalted
    /\ pg_meas = "enable"
    /\ pg_level' = <<pg_set_enabled(pg_cfg, TRUE)>>
    /\ pg_trace' = Append(pg_trace, "rail_on")
    /\ pg_meas' = "stabilize"
    /\ UNCHANGED <<pg_cfg, pg_main, pg_comm, pg_mgr, pg_bits>>
    /\ UNCHANGED PgRest

\* task_measurement: the delay is over, fake_sensor_read
MeasRead ==
    /\ ~PgHalted
    /\ pg_meas = "stabilize"
    /\ pg_trace' = Append(pg_trace, "sensor_read")
    /\ pg_meas' = "signal"
    /\ UNCHANGED <<pg_cfg, pg_level, pg_main, pg_comm, pg_mgr, pg_bits>>
    /\ UNCHANGED PgRest

\* task_measurement: xEventGroupSetBits(s_evt, EVT_MEAS_DONE)
MeasDone ==
    /\ ~PgHalted
    /\ pg_cfg.evt_ok
    /\ pg_meas = "signal"
    /\ pg_bits' = pg_bits \cup {EVT_MEAS_DONE}
    /\ pg_trace' = Append(pg_trace, "meas_done")
    /\ pg_meas' = "exit"
    /\ UNCHANGED <<pg_cfg, pg_level, pg_main, pg_comm, pg_mgr>>
    /\ UNCHANGED PgRest

\* task_comm: its wait returns, the simulated transmit starts
CommTransmit ==
    /\ ~PgHalted
    /\ pg_cfg.evt_ok
    /\ pg_comm = "wait"
    /\ comm_ready(pg_bits)
    /\ pg_trace' = Append(pg_trace, "transmit")
    /\ pg_comm' = "sending"
    /\ UNCHANGED <<pg_cfg, pg_level, pg_main, pg_meas, pg_mgr, pg_bits>>
    /\ UNCHANGED PgRest

\* task_comm: after 50 ms, xEventGroupSetBits(s_evt, EVT_COMM_DONE)
CommDone ==
    /\ ~PgHalted
    /\ pg_comm = "sending"
    /\ pg_bits' = pg_bits \cup {EVT_COMM_DONE}
    /\ pg_trace' = Append(pg_trace, "comm_done")
    /\ pg_comm' = "exit"
    /\ UNCHANGED <<pg_cfg, pg_level, pg_main, pg_meas, pg_mgr>>
    /\ UNCHANGED PgRest

\* task_measurement, task_comm: vTaskDelete(NULL)
TaskExit ==
    /\ ~PgHalted
    /\ \/ pg_meas = "exit" /\ pg_meas' = "deleted" /\ UNCHANGED pg_comm
       \/ pg_comm = "exit" /\ pg_comm' = "deleted" /\ UNCHANGED pg_meas
    /\ UNCHANGED <<pg_cfg, pg_level, pg_main, pg_mgr, pg_bits, pg_trace>>
    /\ UNCHANGED PgRest

\* task_power_manager: its wait returns, bus_safe_apply_before_power_off
MgrBusSafe ==
    /\ ~PgHalted
    /\ pg_cfg.evt_ok
    /\ pg_mgr = "wait"
    /\ mgr_ready(pg_bits)
    /\ pg_trace' = Append(pg_trace, "bus_safe")
    /\ pg_mgr' = "gate"
    /\ UNCHANGED <<pg_cfg, pg_level, pg_main, pg_meas, pg_comm, pg_bits>>
    /\ UNCHANGED PgRest

\* task_power_manager: pg_set_enabled(false), then the 5 ms delay
MgrRailOff ==
    /\ ~PgHalted
    /\ pg_mgr = "gate"
    /\ pg_level' = <<pg_set_enabled(pg_cfg, FALSE)>>
    /\ pg_trace' = Append(pg_trace, "rail_off")
    /\ pg_mgr' = "collapse"
    /\ UNCHANGED <<pg_cfg, pg_main, pg_meas, pg_comm, pg_bits>>
    /\ UNCHANGED PgRest

\* task_power_manager: sleep_ctrl_enter_deep_sleep
MgrSleep ==
    /\ ~PgHalted
    /\ pg_mgr = "collapse"
    /\ pg_trace' = Append(pg_trace, "deep_sleep")
    /\ pg_mgr' = "asleep"
    /\ UNCHANGED <<pg_cfg, pg_level, pg_main, pg_meas, pg_comm, pg_bits>>
    /\ UNCHANGED PgRest

\* s_evt is NULL (xEventGroupCreate failed, app_main does not look at it): the
\* first event group call of any task stops the firmware
PgPanic ==
    /\ ~PgHalted
    /\ ~pg_cfg.evt_ok
    /\ pg_meas = "signal" \/ pg_comm = "wait" \/ pg_mgr = "wait"
    /\ pg_trace' = Append(pg_trace, "panic")
    /\ UNCHANGED <<pg_cfg, pg_level, pg_main, pg_meas, pg_comm, pg_mgr, pg_bits>>
    /\ UNCHANGED PgRest

PgNext ==
    \/ PgBoot \/ PgCreate
    \/ MeasEnable \/ MeasRead \/ MeasDone
    \/ CommTransmit \/ CommDone \/ TaskExit
    \/ MgrBusSafe \/ MgrRailOff \/ MgrSleep
    \/ PgPanic

InitPg == PgInit /\ EfuseIdle /\ OtaIdle /\ CrcIdle /\ WifiIdle /\ PoolIdle /\ QueueIdle /\ NotifyIdle /\ EvtIdle

SpecPg == InitPg /\ [][PgNext]_vars

\* the position of the event x in the trace, 0 if it has not happened
Pos(x) ==
    IF \E i \in 1..Len(pg_trace) : pg_trace[i] = x
    THEN CHOOSE i \in 1..Len(pg_trace) :
            pg_trace[i] = x /\ \A j \in 1..(i - 1) : pg_trace[j] # x
    ELSE 0
Happened(x) == Pos(x) # 0
\* x has happened, and if so a happened before it
After(x, a) == Happened(x) => (Happened(a) /\ Pos(a) < Pos(x))

\* C35: in every interleaving of app_main, the measurement, comm and power
\* manager tasks, the rail is OFF after pg_init until the measurement task
\* enables it, it is enabled before the sensor read and still ON during it,
\* the transmit starts only after the measurement is done, the bus-safe state
\* is applied before the rail is disabled, the rail is disabled only after
\* both measurement and comm are done, and deep sleep is entered only after
\* that, with the rail OFF.
C35_SafeSequencing ==
    /\ [](~Happened("rail_on") => ~RailOn)
    /\ [](After("rail_on", "pg_init"))
    /\ [](After("sensor_read", "rail_on"))
    /\ [][pg_meas' = "signal" /\ pg_meas = "stabilize" => RailOn]_vars
    /\ [](After("transmit", "meas_done"))
    /\ [](After("rail_off", "bus_safe"))
    /\ [](After("bus_safe", "meas_done") /\ After("bus_safe", "comm_done"))
    /\ [](After("deep_sleep", "rail_off"))
    /\ [](Happened("rail_off") => ~RailOn)
    /\ [](\A i, j \in 1..Len(pg_trace) : pg_trace[i] = pg_trace[j] => i = j)

\* C35 witness: the firmware went through the whole sequence into deep
\* sleep with the rail off, on a board whose enable pin is active low.
C35_Witness ==
    /\ Happened("deep_sleep")
    /\ ~pg_cfg.active_high
    /\ pg_level = <<1>>
    /\ Pos("sensor_read") < Pos("transmit")


------------------------------------------------------------------------------
(* Counting-semaphore pool: app_main and worker_task                        *)

\* everything but the semaphore demo stands still
PoolRest == <<efuseVars, otaVars, crcVars, wifiVars, pgVars, queueVars, notifyVars, evtVars>>

BUFFER_POOL_SIZE  == 3
WORKER_TASK_COUNT == 5
WorkerIds == 0..(WORKER_TASK_COUNT - 1)

\* xSemaphoreTake on a counting semaphore whose count is `count`: whether a
\* slot can be taken, and the count left
sem_take(count) ==
    [ok |-> count > 0, count |-> IF count > 0 THEN count - 1 ELSE count]
\* xSemaphoreGive: the count goes up unless it is at its maximum
sem_give(count) == IF count < BUFFER_POOL_SIZE THEN count + 1 ELSE count

\* mutant: the result of xSemaphoreTake is not looked at
worker_after_take_ignore(ok) == "hold"

\* "if (xSemaphoreTake(...) == pdTRUE) { ... } else { ... }": where the
\* worker goes after the take returned
worker_after_take(ok) == IF ok THEN "hold" ELSE "rest"

\* reset: app_main is about to run
PoolInit ==
    /\ pool_main = "boot"
    /\ g_pool_sem = 0
    /\ worker = [w \in WorkerIds |-> "none"]

\* app_main: the three primitives are created; it returns if one is NULL
PoolBoot ==
    /\ pool_main = "boot"
    /\ \E created \in BOOLEAN :
         IF created
         THEN pool_main' = "create" /\ g_pool_sem' = BUFFER_POOL_SIZE
         ELSE pool_main' = "failed" /\ UNCHANGED g_pool_sem
    /\ UNCHANGED worker
    /\ UNCHANGED PoolRest

\* app_main: "for (i = 0; i < WORKER_TASK_COUNT; i++) xTaskCreate(worker_task, ...)"
PoolCreate ==
    /\ pool_main = "create"
    /\ LET i == Cardinality({w \in WorkerIds : worker[w] # "none"})
       IN  IF i < WORKER_TASK_COUNT
           THEN worker' = [worker EXCEPT ![i] = "take"] /\ UNCHANGED pool_main
           ELSE pool_main' = "done" /\ UNCHANGED worker
    /\ UNCHANGED g_pool_sem
    /\ UNCHANGED PoolRest

\* worker_task: xSemaphoreTake(g_pool_sem, 1000 ms) returns, with a slot or,
\* when none came free in time, without
WorkerTake ==
    /\ \E w \in WorkerIds :
         /\ worker[w] = "take"
         /\ LET t == sem_take(g_pool_sem)
            IN  /\ g_pool_sem' = t.count
                /\ worker' = [worker EXCEPT ![w] = worker_after_take(t.ok)]
    /\ UNCHANGED pool_main
    /\ UNCHANGED PoolRest

\* worker_task: the 600 ms of work are over, xSemaphoreGive(g_pool_sem)
WorkerGive ==
    /\ \E w \in WorkerIds :
         /\ worker[w] = "hold"
         /\ g_pool_sem' = sem_give(g_pool_sem)
         /\ worker' = [worker EXCEPT ![w] = "rest"]
    /\ UNCHANGED pool_main
    /\ UNCHANGED PoolRest

\* worker_task: the stagger delay is over, the loop starts again
WorkerDelay ==
    /\ \E w \in WorkerIds :
         /\ worker[w] = "rest"
         /\ worker' = [worker EXCEPT ![w] = "take"]
    /\ UNCHANGED <<pool_main, g_pool_sem>>
    /\ UNCHANGED PoolRest

PoolNext == PoolBoot \/ PoolCreate \/ WorkerTake \/ WorkerGive \/ WorkerDelay

InitPool == PoolInit /\ EfuseIdle /\ OtaIdle /\ CrcIdle /\ WifiIdle /\ PgIdle /\ QueueIdle /\ NotifyIdle /\ EvtIdle

SpecPool == InitPool /\ [][PoolNext]_vars

\* the workers that own a pool slot
Owners == {w \in WorkerIds : worker[w] = "hold"}

\* C36: with 5 workers and a pool of 3, at most 3 workers own a slot at any
\* time, the free slots plus the owners are always 3 once the pool exists,
\* and each successful take is matched by one give: a worker becomes an owner
\* only by taking one slot and stops being one only by giving one back.
C36_PoolBounded ==
    /\ [](Cardinality(Owners) <= 3)
    /\ [](pool_main \notin {"boot", "failed"}
            => g_pool_sem + Cardinality(Owners) = 3)
    /\ [](g_pool_sem \in 0..3)
    /\ [][\A w \in WorkerIds :
            /\ (worker[w] # "hold" /\ worker'[w] = "hold")
                  => (worker[w] = "take" /\ g_pool_sem' = g_pool_sem - 1)
            /\ (worker[w] = "hold" /\ worker'[w] # "hold")
                  => (worker'[w] = "rest" /\ g_pool_sem' = g_pool_sem + 1)]_vars

\* C36 witness: three workers own the three slots while a fourth is asking
\* for one and the fifth is in its delay.
C36_Witness ==
    /\ Cardinality(Owners) = 3
    /\ g_pool_sem = 0
    /\ \E w \in WorkerIds : worker[w] = "rest"
    /\ \E w \in WorkerIds : worker[w] = "take"


------------------------------------------------------------------------------
(* Queue demo: run_queue_demo, producer_queue_task, consumer_queue_task     *)

\* everything but the queue demo stands still
QueueRest == <<efuseVars, otaVars, crcVars, wifiVars, pgVars, poolVars, notifyVars, evtVars>>

\* xQueueCreate(8, sizeof(int))
QUEUE_LENGTH == 8
\* the producer is followed for this many values
MaxSend == 10

\* mutant: a send that does not wait: the value is dropped when the queue
\* is full
queue_send_nowait(q, v) ==
    IF Len(q) < QUEUE_LENGTH
    THEN [blocked |-> FALSE, q |-> Append(q, v)]
    ELSE [blocked |-> FALSE, q |-> q]

\* xQueueSend(s_data_q, &value, portMAX_DELAY): the item goes to the back of
\* the queue; while the queue is full the caller stays blocked
queue_send(q, v) ==
    IF Len(q) < QUEUE_LENGTH
    THEN [blocked |-> FALSE, q |-> Append(q, v)]
    ELSE [blocked |-> TRUE, q |-> q]

\* xQueueReceive(s_data_q, &rx, portMAX_DELAY): the oldest item is taken;
\* while the queue is empty the caller stays blocked
queue_receive(q) ==
    IF q # <<>>
    THEN [blocked |-> FALSE, q |-> Tail(q), rx |-> <<Head(q)>>]
    ELSE [blocked |-> TRUE, q |-> q, rx |-> <<>>]

\* app_main is about to call run_queue_demo
QueueInit ==
    /\ q_tasks = <<>>
    /\ s_data_q = <<>>
    /\ q_value = 0
    /\ q_prod = "none"
    /\ q_got = <<>>

\* run_queue_demo: the queue is created, or the function returns; then the
\* two tasks are created, each of which can fail
QueueBoot ==
    /\ q_tasks = <<>>
    /\ \E created \in BOOLEAN, ok_p \in BOOLEAN, ok_c \in BOOLEAN :
         /\ q_tasks' = <<[queue    |-> created,
                          producer |-> created /\ ok_p,
                          consumer |-> created /\ ok_c]>>
         /\ q_prod' = IF created /\ ok_p THEN "send" ELSE "none"
    /\ UNCHANGED <<s_data_q, q_value, q_got>>
    /\ UNCHANGED QueueRest

\* producer_queue_task: xQueueSend returns, the value is logged and incremented
ProducerSend ==
    /\ q_prod = "send"
    /\ q_value < MaxSend
    /\ LET r == queue_send(s_data_q, q_value)
       IN  /\ ~r.blocked
           /\ s_data_q' = r.q
    /\ q_value' = q_value + 1
    /\ q_prod' = "delay"
    /\ UNCHANGED <<q_tasks, q_got>>
    /\ UNCHANGED QueueRest

\* producer_queue_task: the 200 ms delay is over
ProducerDelay ==
    /\ q_prod = "delay"
    /\ q_prod' = "send"
    /\ UNCHANGED <<q_tasks, s_data_q, q_value, q_got>>
    /\ UNCHANGED QueueRest

\* consumer_queue_task: xQueueReceive returns an item, which is logged
ConsumerReceive ==
    /\ q_tasks # <<>>
    /\ q_tasks[1].consumer
    /\ LET r == queue_receive(s_data_q)
       IN  /\ ~r.blocked
           /\ s_data_q' = r.q
           /\ q_got' = q_got \o r.rx
    /\ UNCHANGED <<q_tasks, q_value, q_prod>>
    /\ UNCHANGED QueueRest

QueueNext == QueueBoot \/ ProducerSend \/ ProducerDelay \/ ConsumerReceive

InitQueue == QueueInit /\ EfuseIdle /\ OtaIdle /\ CrcIdle /\ WifiIdle /\ PgIdle /\ PoolIdle /\ NotifyIdle /\ EvtIdle

SpecQueue == InitQueue /\ [][QueueNext]_vars

\* each task runs again and again while it is not blocked
SpecQueueFair ==
    /\ SpecQueue
    /\ WF_vars(ProducerSend) /\ WF_vars(ProducerDelay) /\ WF_vars(ConsumerReceive)

\* the values 0, 1, ..., n - 1 in this order
Counting(n) == [i \in 1..n |-> i - 1]

\* the consumer task runs
ConsumerRuns == q_tasks # <<>> /\ q_tasks[1].consumer

\* C37: what the consumer received followed by what is in the queue is
\* always 0, 1, 2, ... up to the last value sent, so every value is received
\* at most once and in the order sent and none is dropped; the queue never
\* holds more than 8 items; the producer does not send while the queue is
\* full; and with the consumer running every value sent is eventually
\* received.
C37_QueueFifo ==
    /\ [](q_got \o s_data_q = Counting(q_value))
    /\ [](Len(s_data_q) <= 8)
    /\ [][q_value' # q_value
            => (Len(s_data_q) < 8 /\ s_data_q' = Append(s_data_q, q_value)
                /\ q_value' = q_value + 1)]_vars
    /\ \A v \in 0..(MaxSend - 1) :
          (ConsumerRuns /\ q_value > v) ~> (Len(q_got) > v /\ q_got[v + 1] = v)

\* C37 witness: the producer, ahead of the consumer, filled the queue and is
\* blocked with its next value while the consumer has received the first.
C37_Witness ==
    /\ Len(s_data_q) = 8
    /\ q_prod = "send"
    /\ q_got = <<0>>
    /\ q_value = 9


------------------------------------------------------------------------------
(* Notification demo: run_notify_demo, producer_notify_task,                *)
(* consumer_notify_task                                                     *)

\* everything but the notification demo stands still
NotifyRest == <<efuseVars, otaVars, crcVars, wifiVars, pgVars, poolVars, queueVars, evtVars>>

\* the producer is followed for this many notifications
MaxNotify == 6

\* mutant: a notification that sets the value instead of incrementing it, so
\* that a burst collapses into one
task_notify_set(value) == 1

\* xTaskNotify(handle, 0, eIncrement): the notification value of the target
\* task goes up by one
task_notify(value) == value + 1

\* ulTaskNotifyTake(pdTRUE, portMAX_DELAY): the caller stays blocked while the
\* value is zero; otherwise the value is returned and cleared
notify_take(value) ==
    IF value = 0
    THEN [blocked |-> TRUE, n |-> 0, value |-> value]
    ELSE [blocked |-> FALSE, n |-> value, value |-> 0]

\* app_main is about to call run_notify_demo
NotifyInit ==
    /\ n_main = "start"
    /\ s_consumer_notify_handle = <<>>
    /\ n_value = 0
    /\ n_seq = 0
    /\ n_prod = "none"
    /\ n_cons = "none"
    /\ n_counts = <<>>

\* run_notify_demo: the consumer task is created; on success the handle is
\* stored through the out-parameter before the task can run
NotifyCreateConsumer ==
    /\ n_main = "start"
    /\ n_main' = "consumer"
    /\ \E ok_c \in BOOLEAN :
         /\ s_consumer_notify_handle' =
                IF ok_c THEN <<"consumer_notify">> ELSE s_consumer_notify_handle
         /\ n_cons' = IF ok_c THEN "entry" ELSE "none"
    /\ UNCHANGED <<n_value, n_seq, n_prod, n_counts>>
    /\ UNCHANGED NotifyRest

\* run_notify_demo: the producer task is created, a failure is only logged
NotifyCreateProducer ==
    /\ n_main = "consumer"
    /\ n_main' = "done"
    /\ \E ok_p \in BOOLEAN :
         n_prod' = IF ok_p THEN "check" ELSE "none"
    /\ UNCHANGED <<s_consumer_notify_handle, n_value, n_seq, n_cons, n_counts>>
    /\ UNCHANGED NotifyRest

\* consumer_notify_task: stores its own handle, then enters the loop
ConsumerEntry ==
    /\ n_cons = "entry"
    /\ s_consumer_notify_handle' = <<"consumer_notify">>
    /\ n_cons' = "take"
    /\ UNCHANGED <<n_main, n_value, n_seq, n_prod, n_counts>>
    /\ UNCHANGED NotifyRest

\* consumer_notify_task: ulTaskNotifyTake returns n, which is logged
ConsumerTake ==
    /\ n_cons = "take"
    /\ LET r == notify_take(n_value)
       IN  /\ ~r.blocked
           /\ n_value' = r.value
           /\ n_counts' = Append(n_counts, r.n)
    /\ UNCHANGED <<n_main, s_consumer_notify_handle, n_seq, n_prod, n_cons>>
    /\ UNCHANGED NotifyRest

\* producer_notify_task: with a handle, notify, log and seq++; without one,
\* nothing; then the delay starts
ProducerNotify ==
    /\ n_prod = "check"
    /\ n_seq < MaxNotify
    /\ IF s_consumer_notify_handle # <<>>
       THEN /\ n_value' = task_notify(n_value)
            /\ n_seq' = n_seq + 1
       ELSE UNCHANGED <<n_value, n_seq>>
    /\ n_prod' = "delay"
    /\ UNCHANGED <<n_main, s_consumer_notify_handle, n_cons, n_counts>>
    /\ UNCHANGED NotifyRest

\* producer_notify_task: the 200 ms delay is over
ProducerNotifyDelay ==
    /\ n_prod = "delay"
    /\ n_prod' = "check"
    /\ UNCHANGED <<n_main, s_consumer_notify_handle, n_value, n_seq, n_cons, n_counts>>
    /\ UNCHANGED NotifyRest

NotifyNext ==
    \/ NotifyCreateConsumer
    \/ NotifyCreateProducer
    \/ ConsumerEntry
    \/ ConsumerTake
    \/ ProducerNotify
    \/ ProducerNotifyDelay

InitNotify == NotifyInit /\ EfuseIdle /\ OtaIdle /\ CrcIdle /\ WifiIdle /\ PgIdle /\ PoolIdle /\ QueueIdle /\ EvtIdle

SpecNotify == InitNotify /\ [][NotifyNext]_vars

\* run_notify_demo returns and each task runs again and again while it is
\* not blocked
SpecNotifyFair ==
    /\ SpecNotify
    /\ WF_vars(NotifyCreateConsumer) /\ WF_vars(NotifyCreateProducer)
    /\ WF_vars(ConsumerEntry) /\ WF_vars(ConsumerTake)
    /\ WF_vars(ProducerNotify) /\ WF_vars(ProducerNotifyDelay)

RECURSIVE SumOf(_)
\* the sum of a sequence of numbers
SumOf(s) == IF s = <<>> THEN 0 ELSE Head(s) + SumOf(Tail(s))

\* C38: the counts returned by ulTaskNotifyTake plus the notifications still
\* pending always add up to the number of notifications the producer sent,
\* every count returned is at least 1, the sum of the counts returned
\* equals the number sent again and again whatever the interleaving, and the
\* producer notifies only with a handle that is not NULL.
C38_NotifyAccumulates ==
    /\ [](SumOf(n_counts) + n_value = n_seq)
    /\ [](\A i \in 1..Len(n_counts) : n_counts[i] >= 1)
    /\ []<>(SumOf(n_counts) = n_seq)
    /\ \A k \in 0..MaxNotify : (n_seq = k) ~> (SumOf(n_counts) >= k)
    /\ [][n_seq' # n_seq
            => (s_consumer_notify_handle # <<>> /\ n_seq' = n_seq + 1
                /\ n_value' = n_value + 1)]_vars

\* C38 witness: the producer sent a burst of three notifications before the
\* consumer took them with one call, and two more were taken one by one.
C38_Witness ==
    /\ n_counts = <<3, 1, 1>>
    /\ n_seq = 5
    /\ n_value = 0


------------------------------------------------------------------------------
(* Event group demo: app_main, init_task, adc_task, temp_task, gpio_task,   *)
(* aggregator_task, diagnostics_task                                        *)

\* everything but the event group demo stands still
EvtRest == <<efuseVars, otaVars, crcVars, wifiVars, pgVars, poolVars, queueVars, notifyVars>>

\* the event bits, each a mask with one bit set; the value of the event
\* group is the set of the bits that are set
EVT_ADC_INIT   == 1
EVT_GPIO_INIT  == 2
EVT_I2C_INIT   == 4
EVT_NET_INIT   == 8
EVT_ADC_READY  == 256
EVT_TEMP_READY == 512
EVT_GPIO_READY == 1024

EVT_ALL_INIT_MASK == {EVT_ADC_INIT, EVT_GPIO_INIT, EVT_I2C_INIT, EVT_NET_INIT}
EVT_ALL_DATA_MASK == {EVT_ADC_READY, EVT_TEMP_READY, EVT_GPIO_READY}
EVT_ANY_DATA_MASK == EVT_ALL_DATA_MASK

\* xEventGroupWaitBits(g_evt, mask, clear, all, ticks) at the moment it
\* returns: met says whether the wait condition holds (otherwise the return
\* is a timeout), bits is the value returned, the value of the group before
\* anything was cleared, and after is the group once the call has returned:
\* the mask is cleared only when the condition was met
event_wait(bits, mask, clear, all) ==
    LET met == IF all THEN mask \subseteq bits ELSE (mask \cap bits) # {}
    IN  [met   |-> met,
         bits  |-> bits,
         after |-> IF met /\ clear THEN bits \ mask ELSE bits]

\* xEventGroupSetBits(g_evt, bit)
event_set(bits, bit) == bits \cup {bit}

\* mutant: the aggregator accepts any data-ready bit
agg_complete_any(bits) == (bits \cap EVT_ALL_DATA_MASK) # {}

\* aggregator_task: (bits & EVT_ALL_DATA_MASK) == EVT_ALL_DATA_MASK
agg_complete(bits) == (bits \cap EVT_ALL_DATA_MASK) = EVT_ALL_DATA_MASK

\* app_main entered after reset
EvtInit ==
    /\ g_evt = {}
    /\ ev_main = "start"
    /\ ev_init = "none"
    /\ ev_task = [adc |-> "none", temp |-> "none", gpio |-> "none", diag |-> "none"]
    /\ gpio_last = 0
    /\ stable_count = 0
    /\ ev_agg = "none"
    /\ ev_bits = <<>>
    /\ ev_out = "none"

\* app_main: the event group is created, or app_main returns; then the six
\* tasks are created
EvtBoot ==
    /\ ev_main = "start"
    /\ \E created \in BOOLEAN :
         IF created
         THEN /\ ev_main' = "run"
              /\ ev_init' = "gpio"
              /\ ev_task' = [adc |-> "wait_init", temp |-> "wait_init",
                             gpio |-> "wait_init", diag |-> "wait_init"]
              /\ ev_agg' = "wait_init"
         ELSE /\ ev_main' = "failed"
              /\ UNCHANGED <<ev_init, ev_task, ev_agg>>
    /\ UNCHANGED <<g_evt, gpio_last, stable_count, ev_bits, ev_out>>
    /\ UNCHANGED EvtRest

\* init_task: init_gpio_input, the bit is set on success
InitGpio ==
    /\ ev_init = "gpio"
    /\ \E ok \in BOOLEAN :
         g_evt' = IF ok THEN event_set(g_evt, EVT_GPIO_INIT) ELSE g_evt
    /\ ev_init' = "adc"
    /\ UNCHANGED <<ev_main, ev_task, gpio_last, stable_count, ev_agg, ev_bits, ev_out>>
    /\ UNCHANGED EvtRest

\* init_task: init_adc_oneshot, the bit is set on success
InitAdc ==
    /\ ev_init = "adc"
    /\ \E ok \in BOOLEAN :
         g_evt' = IF ok THEN event_set(g_evt, EVT_ADC_INIT) ELSE g_evt
    /\ ev_init' = "i2c"
    /\ UNCHANGED <<ev_main, ev_task, gpio_last, stable_count, ev_agg, ev_bits, ev_out>>
    /\ UNCHANGED EvtRest

\* init_task: after 150 ms the I2C bit is set
InitI2c ==
    /\ ev_init = "i2c"
    /\ g_evt' = event_set(g_evt, EVT_I2C_INIT)
    /\ ev_init' = "net"
    /\ UNCHANGED <<ev_main, ev_task, gpio_last, stable_count, ev_agg, ev_bits, ev_out>>
    /\ UNCHANGED EvtRest

\* init_task: after 250 ms the network bit is set and the task deletes itself
InitNet ==
    /\ ev_init = "net"
    /\ g_evt' = event_set(g_evt, EVT_NET_INIT)
    /\ ev_init' = "deleted"
    /\ UNCHANGED <<ev_main, ev_task, gpio_last, stable_count, ev_agg, ev_bits, ev_out>>
    /\ UNCHANGED EvtRest

\* adc_task: the wait for EVT_ADC_INIT returns
AdcStart ==
    /\ ev_task.adc = "wait_init"
    /\ event_wait(g_evt, {EVT_ADC_INIT}, FALSE, TRUE).met
    /\ ev_task' = [ev_task EXCEPT !.adc = "loop"]
    /\ UNCHANGED <<g_evt, ev_main, ev_init, gpio_last, stable_count, ev_agg, ev_bits, ev_out>>
    /\ UNCHANGED EvtRest

\* adc_task: one round of the loop, the ready bit is set if the read worked
AdcSample ==
    /\ ev_task.adc = "loop"
    /\ \E ok \in BOOLEAN :
         g_evt' = IF ok THEN event_set(g_evt, EVT_ADC_READY) ELSE g_evt
    /\ UNCHANGED <<ev_main, ev_init, ev_task, gpio_last, stable_count, ev_agg, ev_bits, ev_out>>
    /\ UNCHANGED EvtRest

\* temp_task: the wait for EVT_I2C_INIT returns
TempStart ==
    /\ ev_task.temp = "wait_init"
    /\ event_wait(g_evt, {EVT_I2C_INIT}, FALSE, TRUE).met
    /\ ev_task' = [ev_task EXCEPT !.temp = "loop"]
    /\ UNCHANGED <<g_evt, ev_main, ev_init, gpio_last, stable_count, ev_agg, ev_bits, ev_out>>
    /\ UNCHANGED EvtRest

\* temp_task: one round of the loop, the ready bit is set
TempSample ==
    /\ ev_task.temp = "loop"
    /\ g_evt' = event_set(g_evt, EVT_TEMP_READY)
    /\ UNCHANGED <<ev_main, ev_init, ev_task, gpio_last, stable_count, ev_agg, ev_bits, ev_out>>
    /\ UNCHANGED EvtRest

\* gpio_task: the wait for EVT_GPIO_INIT returns and the first level is read
GpioStart ==
    /\ ev_task.gpio = "wait_init"
    /\ event_wait(g_evt, {EVT_GPIO_INIT}, FALSE, TRUE).met
    /\ ev_task' = [ev_task EXCEPT !.gpio = "loop"]
    /\ \E level \in {0, 1} : gpio_last' = level
    /\ stable_count' = 0
    /\ UNCHANGED <<g_evt, ev_main, ev_init, ev_agg, ev_bits, ev_out>>
    /\ UNCHANGED EvtRest

\* gpio_task: one round of the loop; the ready bit is set after three
\* reads in a row equal to `last`
GpioSample ==
    /\ ev_task.gpio = "loop"
    /\ \E cur \in {0, 1} :
         LET count == IF cur = gpio_last THEN stable_count + 1 ELSE 0
         IN  /\ gpio_last' = cur
             /\ IF count >= 3
                THEN /\ g_evt' = event_set(g_evt, EVT_GPIO_READY)
                     /\ stable_count' = 0
                ELSE /\ g_evt' = g_evt
                     /\ stable_count' = count
    /\ UNCHANGED <<ev_main, ev_init, ev_task, ev_agg, ev_bits, ev_out>>
    /\ UNCHANGED EvtRest

\* aggregator_task: the wait for all four init bits returns
AggStart ==
    /\ ev_agg = "wait_init"
    /\ event_wait(g_evt, EVT_ALL_INIT_MASK, FALSE, TRUE).met
    /\ ev_agg' = "wait_data"
    /\ UNCHANGED <<g_evt, ev_main, ev_init, ev_task, gpio_last, stable_count, ev_bits, ev_out>>
    /\ UNCHANGED EvtRest

\* aggregator_task: the wait for the three ready bits returns with all of
\* them set, and they are cleared
AggWait ==
    /\ ev_agg = "wait_data"
    /\ LET r == event_wait(g_evt, EVT_ALL_DATA_MASK, TRUE, TRUE)
       IN  /\ r.met
           /\ ev_bits' = <<r.bits>>
           /\ g_evt' = r.after
    /\ ev_agg' = "check"
    /\ UNCHANGED <<ev_main, ev_init, ev_task, gpio_last, stable_count, ev_out>>
    /\ UNCHANGED EvtRest

\* aggregator_task: the wait returns after 3 s with one of the ready bits
\* still missing
AggTimeout ==
    /\ ev_agg = "wait_data"
    /\ LET r == event_wait(g_evt, EVT_ALL_DATA_MASK, TRUE, TRUE)
       IN  /\ ~r.met
           /\ ev_bits' = <<r.bits>>
           /\ g_evt' = r.after
    /\ ev_agg' = "check"
    /\ UNCHANGED <<ev_main, ev_init, ev_task, gpio_last, stable_count, ev_out>>
    /\ UNCHANGED EvtRest

\* aggregator_task: the check of `bits`: a warning and the next wait, or
\* the payload and the 200 ms delay
AggCheck ==
    /\ ev_agg = "check"
    /\ IF ~agg_complete(ev_bits[1])
       THEN /\ ev_out' = "timeout"
            /\ ev_agg' = "wait_data"
       ELSE /\ ev_out' = "payload"
            /\ ev_agg' = "delay"
    /\ UNCHANGED <<g_evt, ev_main, ev_init, ev_task, gpio_last, stable_count, ev_bits>>
    /\ UNCHANGED EvtRest

\* aggregator_task: the 200 ms delay is over
AggDelay ==
    /\ ev_agg = "delay"
    /\ ev_agg' = "wait_data"
    /\ UNCHANGED <<g_evt, ev_main, ev_init, ev_task, gpio_last, stable_count, ev_bits, ev_out>>
    /\ UNCHANGED EvtRest

\* diagnostics_task: the wait for all four init bits returns
DiagStart ==
    /\ ev_task.diag = "wait_init"
    /\ event_wait(g_evt, EVT_ALL_INIT_MASK, FALSE, TRUE).met
    /\ ev_task' = [ev_task EXCEPT !.diag = "wait_any"]
    /\ UNCHANGED <<g_evt, ev_main, ev_init, gpio_last, stable_count, ev_agg, ev_bits, ev_out>>
    /\ UNCHANGED EvtRest

\* diagnostics_task: the wait for any ready bit returns, with a bit or after
\* 5 s; nothing is cleared; with bits == 0 the task waits again, otherwise it
\* logs and delays
DiagWait ==
    /\ ev_task.diag = "wait_any"
    /\ LET r == event_wait(g_evt, EVT_ANY_DATA_MASK, FALSE, FALSE)
       IN  /\ g_evt' = r.after
           /\ ev_task' = [ev_task EXCEPT
                            !.diag = IF r.bits = {} THEN "wait_any" ELSE "delay"]
    /\ UNCHANGED <<ev_main, ev_init, gpio_last, stable_count, ev_agg, ev_bits, ev_out>>
    /\ UNCHANGED EvtRest

\* diagnostics_task: the 100 ms delay is over
DiagDelay ==
    /\ ev_task.diag = "delay"
    /\ ev_task' = [ev_task EXCEPT !.diag = "wait_any"]
    /\ UNCHANGED <<g_evt, ev_main, ev_init, gpio_last, stable_count, ev_agg, ev_bits, ev_out>>
    /\ UNCHANGED EvtRest

EvtNext ==
    \/ EvtBoot
    \/ InitGpio \/ InitAdc \/ InitI2c \/ InitNet
    \/ AdcStart \/ AdcSample
    \/ TempStart \/ TempSample
    \/ GpioStart \/ GpioSample
    \/ AggStart \/ AggWait \/ AggTimeout \/ AggCheck \/ AggDelay
    \/ DiagStart \/ DiagWait \/ DiagDelay

InitEvt == EvtInit /\ EfuseIdle /\ OtaIdle /\ CrcIdle /\ WifiIdle /\ PgIdle /\ PoolIdle /\ QueueIdle /\ NotifyIdle

SpecEvt == InitEvt /\ [][EvtNext]_vars

\* the three ready bits that are set in a value of the event group
ReadyIn(bits) == bits \cap {EVT_ADC_READY, EVT_TEMP_READY, EVT_GPIO_READY}

\* all three ready bits are set in a value of the event group
AllReady(bits) == ReadyIn(bits) = {EVT_ADC_READY, EVT_TEMP_READY, EVT_GPIO_READY}

\* all four init bits are set in the event group
AllInit == {EVT_ADC_INIT, EVT_GPIO_INIT, EVT_I2C_INIT, EVT_NET_INIT} \subseteq g_evt

\* the aggregator's wait for the ready bits returns in this step
WaitReturns == ev_agg = "wait_data" /\ ev_agg' = "check"

\* the aggregator acts on the bits its wait returned in this step
Decides == ev_agg = "check" /\ ev_agg' # "check"

\* C39: the aggregator waits for the ready bits, and logs a payload, only
\* with all four init bits set; the bits its wait returns are the value the
\* event group had at that moment; it logs a payload only when that value
\* had all three ready bits, and then it has cleared exactly those three
\* bits; nothing else ever clears a bit; and when the wait returned with a
\* ready bit missing nothing is cleared, no payload is logged and the
\* aggregator waits again.
C39_Aggregator ==
    /\ [](ev_agg \in {"wait_data", "check", "delay"} => AllInit)
    /\ [](ev_out = "payload" => AllInit)
    /\ [][WaitReturns =>
            /\ ev_bits' = <<g_evt>>
            /\ g_evt' = IF AllReady(g_evt) THEN g_evt \ ReadyIn(g_evt) ELSE g_evt]_vars
    /\ [][Decides =>
            IF AllReady(ev_bits[1])
            THEN ev_out' = "payload" /\ ev_agg' = "delay"
            ELSE ev_out' = "timeout" /\ ev_agg' = "wait_data"]_vars
    /\ [][ev_out' # ev_out => Decides]_vars
    /\ [][~(g_evt \subseteq g_evt') => (WaitReturns /\ AllReady(g_evt))]_vars

\* C39 witness: after a payload was logged the wait has timed out with the
\* ADC ready bit missing; the temperature and GPIO ready bits are still set.
C39_Witness ==
    /\ ev_out = "payload"
    /\ ev_agg = "check"
    /\ ev_bits # <<>>
    /\ ReadyIn(ev_bits[1]) = {EVT_TEMP_READY, EVT_GPIO_READY}
    /\ ReadyIn(g_evt) = {EVT_TEMP_READY, EVT_GPIO_READY}

====
